---- MODULE Spec2Model ----
(***************************************************************************)
(* Model of mcp-sqlserver: the QueryBuilder (src/src/database/             *)
(* connection.ts), the bulk and CRUD tools (src/src/tools/bulk-tools.ts)   *)
(* and the tool handlers of the MCP server (src/src/index.ts).             *)
(*                                                                         *)
(* SQL text is a sequence of tokens <<kind, string>>; the text the code    *)
(* builds by string concatenation is the concatenation of the tokens:      *)
(*   "sql"  literal text written by the builder                            *)
(*   "id"   a caller-supplied table or column name                         *)
(*   "raw"  a caller-supplied fragment emitted as is (projection, join on) *)
(*   "op"   the operator of a predicate                                    *)
(*   "ph"   a placeholder: <<"ph", n>> is the text "@n"                    *)
(*   "num"  a number written into the text (limit, offset)                 *)
(*   "val"  a caller-supplied value written into the text                  *)
(* A JS value is a record [t, v]: t is "undefined", "scalar" or "array"    *)
(* and v the sequence of the scalars it holds.  A JS object (a record of   *)
(* columns, a parameter map) is a sequence of [name, value] entries in     *)
(* insertion order, with distinct names.                                   *)
(***************************************************************************)
EXTENDS Integers, Sequences, FiniteSets, TLC

VARIABLES
    pool,      \* DatabaseConnection.pool: "null", "connected" or "closed"
    server,    \* the process: "constructed", "serving", "stopping" or "exited"
    op,        \* the operation of the last call
    args,      \* its arguments
    result,    \* what it returned or threw
    sent,      \* the requests it issued with request.query, in order
    memo,      \* an earlier call of a builder: its name, arguments and result
    calls,     \* the number of builder calls made so far
    created,   \* the number of ConnectionPool objects constructed so far
    lastCall,  \* how the last call of connect() or disconnect() ended
    exitCode,  \* the argument of process.exit, once it has been called
    poolMax,   \* config.pool.max: the connections the pool may open
    acquired,  \* the connection each request of the call ran on, in order
    tx         \* the connection on which a transaction was begun, 0 if none

vars == <<pool, server, op, args, result, sent, memo, calls,
          created, lastCall, exitCode, poolMax, acquired, tx>>

----------------------------------------------------------------------------
(* Bounds of the model *)

MaxWhere == 2
MaxInLen == 2
MaxEntries == 2
MaxQueryLen == 4
MaxCalls == 3

----------------------------------------------------------------------------
(* Values, objects and text *)

Undefined == [t |-> "undefined", v |-> <<>>]
Scalar(x) == [t |-> "scalar", v |-> <<x>>]
Array(s) == [t |-> "array", v |-> s]

IsArray(value) == value.t = "array"
IsDefined(value) == value.t # "undefined"

Tok(kind, s) == <<kind, s>>
Sql(s) == <<Tok("sql", s)>>
Ident(s) == <<Tok("sql", "["), Tok("id", s), Tok("sql", "]")>>
Ph(name) == <<Tok("ph", name)>>

RECURSIVE Join(_, _)
Join(texts, sep) ==
    IF texts = <<>> THEN <<>>
    ELSE IF Len(texts) = 1 THEN texts[1]
    ELSE texts[1] \o sep \o Join(Tail(texts), sep)

RECURSIVE Flatten(_)
Flatten(texts) == IF texts = <<>> THEN <<>> ELSE texts[1] \o Flatten(Tail(texts))

Keys(obj) == [i \in 1..Len(obj) |-> obj[i].name]
KeySet(obj) == {obj[i].name : i \in 1..Len(obj)}
Get(obj, k) ==
    IF k \in KeySet(obj)
    THEN (CHOOSE e \in {obj[i] : i \in 1..Len(obj)} : e.name = k).value
    ELSE Undefined
Put(obj, k, value) ==
    IF k \in KeySet(obj)
    THEN [i \in 1..Len(obj) |->
            IF obj[i].name = k THEN [name |-> k, value |-> value] ELSE obj[i]]
    ELSE Append(obj, [name |-> k, value |-> value])

RECURSIVE PutAll(_, _)
PutAll(obj, entries) ==
    IF entries = <<>> THEN obj
    ELSE PutAll(Put(obj, entries[1].name, entries[1].value), Tail(entries))

Placeholders(text) == {text[i][2] : i \in {j \in 1..Len(text) : text[j][1] = "ph"}}

----------------------------------------------------------------------------
(* QueryBuilder: the WHERE clause of the three builders *)

\* `${paramName}_${index}` for index 0..n-1, bound to condition.value[index]
InEntries(paramName, value) ==
    [i \in 1..Len(value.v) |->
        [name |-> paramName \o "_" \o ToString(i - 1), value |-> Scalar(value.v[i])]]

InPlaceholders(paramName, value) ==
    Join([i \in 1..Len(value.v) |-> Ph(paramName \o "_" \o ToString(i - 1))], Sql(", "))

\* ConditionText with the value of a comparison written into the text
ConditionTextInline(condition, paramName) ==
    CASE condition.operator = "IS NULL" ->
            <<Ident(condition.column) \o Sql(" IS NULL")>>
      [] condition.operator = "IS NOT NULL" ->
            <<Ident(condition.column) \o Sql(" IS NOT NULL")>>
      [] condition.operator \in {"IN", "NOT IN"} ->
            IF IsArray(condition.value)
            THEN <<Ident(condition.column) \o Sql(" ") \o <<Tok("op", condition.operator)>>
                   \o Sql(" (") \o InPlaceholders(paramName, condition.value) \o Sql(")")>>
            ELSE <<>>
      [] OTHER ->
            <<Ident(condition.column) \o Sql(" ") \o <<Tok("op", condition.operator)>>
              \o Sql(" '")
              \o [i \in 1..Len(condition.value.v) |-> Tok("val", condition.value.v[i])]
              \o Sql("'")>>

\* the text pushed on `conditions` for one predicate: <<>> when nothing is pushed,
\* <<text>> otherwise
ConditionText(condition, paramName) ==
    CASE condition.operator = "IS NULL" ->
            <<Ident(condition.column) \o Sql(" IS NULL")>>
      [] condition.operator = "IS NOT NULL" ->
            <<Ident(condition.column) \o Sql(" IS NOT NULL")>>
      [] condition.operator \in {"IN", "NOT IN"} ->
            IF IsArray(condition.value)
            THEN <<Ident(condition.column) \o Sql(" ") \o <<Tok("op", condition.operator)>>
                   \o Sql(" (") \o InPlaceholders(paramName, condition.value) \o Sql(")")>>
            ELSE <<>>
      [] OTHER ->
            <<Ident(condition.column) \o Sql(" ") \o <<Tok("op", condition.operator)>>
              \o Sql(" ") \o Ph(paramName)>>

\* ConditionInputs binding a comparison only when its value is defined
ConditionInputsDefinedOnly(condition, paramName) ==
    CASE condition.operator \in {"IS NULL", "IS NOT NULL"} -> <<>>
      [] condition.operator \in {"IN", "NOT IN"} ->
            IF IsArray(condition.value) THEN InEntries(paramName, condition.value) ELSE <<>>
      [] OTHER ->
            IF IsDefined(condition.value)
            THEN <<[name |-> paramName, value |-> condition.value]>>
            ELSE <<>>

\* the entries written to `inputs` for one predicate
ConditionInputs(condition, paramName) ==
    CASE condition.operator \in {"IS NULL", "IS NOT NULL"} -> <<>>
      [] condition.operator \in {"IN", "NOT IN"} ->
            IF IsArray(condition.value) THEN InEntries(paramName, condition.value) ELSE <<>>
      [] OTHER -> <<[name |-> paramName, value |-> condition.value]>>

\* the loop over `where`: paramCounter starts at `first` and is incremented
\* once per predicate
WhereConditions(where, prefix, first) ==
    Flatten([i \in 1..Len(where) |->
                ConditionText(where[i], prefix \o ToString(first + i - 1))])

WhereInputs(where, prefix, first) ==
    Flatten([i \in 1..Len(where) |->
                ConditionInputs(where[i], prefix \o ToString(first + i - 1))])

\* WhereClause without the test where.length > 0
WhereClauseAlways(where, prefix, first) ==
    Sql(" WHERE ") \o Join(WhereConditions(where, prefix, first), Sql(" AND "))

WhereClause(where, prefix, first) ==
    IF Len(where) > 0
    THEN Sql(" WHERE ") \o Join(WhereConditions(where, prefix, first), Sql(" AND "))
    ELSE <<>>

buildDeleteQuery(table, where) ==
    [query |-> Sql("DELETE FROM ") \o Ident(table) \o WhereClause(where, "param", 1),
     inputs |-> PutAll(<<>>, WhereInputs(where, "param", 1))]

\* `[${col}] = @${col}` for every key of data, joined with ', '
SetClauses(data) ==
    Join([i \in 1..Len(data) |-> Ident(data[i].name) \o Sql(" = ") \o Ph(data[i].name)],
         Sql(", "))

\* paramCounter of buildUpdateQuery starts at 1000
\* a counter that the calls of the builder share
WhereParamStartShared == 1000 + calls

WhereParamStart == 1000

buildUpdateQuery(table, data, where) ==
    [query |-> Sql("UPDATE ") \o Ident(table) \o Sql(" SET ") \o SetClauses(data)
               \o WhereClause(where, "where_param", WhereParamStart),
     inputs |-> PutAll(data, WhereInputs(where, "where_param", WhereParamStart))]

buildInsertQuery(table, data) ==
    [query |-> Sql("INSERT INTO ") \o Ident(table) \o Sql(" ([")
               \o Join([i \in 1..Len(data) |-> <<Tok("id", data[i].name)>>], Sql("], ["))
               \o Sql("]) VALUES (")
               \o Join([i \in 1..Len(data) |-> Ph(data[i].name)], Sql(", "))
               \o Sql(")"),
     inputs |-> data]

\* a projection column is caller text written as is; it is given as the
\* sequence of its fragments so that the text search of the limit rewrite
\* sees what it holds
RawText(fragments) == [i \in 1..Len(fragments) |-> Tok("raw", fragments[i])]

ColumnList(columns) == Join([i \in 1..Len(columns) |-> RawText(columns[i])], Sql(", "))

JoinText(joins) ==
    Flatten([i \in 1..Len(joins) |->
        Sql(" ") \o <<Tok("op", joins[i].type)>> \o Sql(" JOIN ") \o Ident(joins[i].table)
        \o Sql(" ON ") \o <<Tok("raw", joins[i].on)>>])

\* OrderByText writing the terms last to first
OrderByTextReversed(orderBy) ==
    IF Len(orderBy) > 0
    THEN Sql(" ORDER BY ")
         \o Join([i \in 1..Len(orderBy) |->
                    Ident(orderBy[Len(orderBy) + 1 - i].column) \o Sql(" ")
                    \o <<Tok("op", orderBy[Len(orderBy) + 1 - i].direction)>>],
                 Sql(", "))
    ELSE <<>>

OrderByText(orderBy) ==
    IF Len(orderBy) > 0
    THEN Sql(" ORDER BY ")
         \o Join([i \in 1..Len(orderBy) |->
                    Ident(orderBy[i].column) \o Sql(" ") \o <<Tok("op", orderBy[i].direction)>>],
                 Sql(", "))
    ELSE <<>>

\* query.indexOf(' FROM'): the first token that is the text " FROM "
IndexOfFrom(text) ==
    LET hits == {i \in 1..Len(text) : text[i][2] = " FROM "}
    IN  CHOOSE i \in hits : \A j \in hits : i <= j

\* query.substring(query.indexOf(' FROM') + 6): " FROM " is six characters
AfterFrom(text) == SubSeq(text, IndexOfFrom(text) + 1, Len(text))

\* buildSelectQuery taking the TOP form whenever a limit is given
buildSelectQueryTopOnly(params) ==
    LET head == Sql("SELECT ") \o ColumnList(params.columns) \o Sql(" FROM ")
                \o Ident(params.table)
        body == head \o JoinText(params.joins) \o WhereClause(params.where, "param", 1)
                \o OrderByText(params.orderBy)
        query ==
            IF params.limit # 0
            THEN Sql("SELECT TOP ") \o <<Tok("num", ToString(params.limit))>> \o Sql(" ")
                 \o ColumnList(params.columns) \o Sql(" FROM ") \o Ident(params.table)
                 \o AfterFrom(body)
            ELSE body
    IN  [query |-> query, inputs |-> PutAll(<<>>, WhereInputs(params.where, "param", 1))]

\* limit and offset are numbers; 0 stands for every falsy value (0, undefined)
buildSelectQuery(params) ==
    LET head == Sql("SELECT ") \o ColumnList(params.columns) \o Sql(" FROM ")
                \o Ident(params.table)
        body == head \o JoinText(params.joins) \o WhereClause(params.where, "param", 1)
                \o OrderByText(params.orderBy)
        query ==
            IF params.limit # 0
            THEN IF params.offset # 0
                 THEN body \o Sql(" OFFSET ") \o <<Tok("num", ToString(params.offset))>>
                      \o Sql(" ROWS FETCH NEXT ") \o <<Tok("num", ToString(params.limit))>>
                      \o Sql(" ROWS ONLY")
                 ELSE Sql("SELECT TOP ") \o <<Tok("num", ToString(params.limit))>> \o Sql(" ")
                      \o ColumnList(params.columns) \o Sql(" FROM ") \o Ident(params.table)
                      \o AfterFrom(body)
            ELSE body
    IN  [query |-> query, inputs |-> PutAll(<<>>, WhereInputs(params.where, "param", 1))]

----------------------------------------------------------------------------
(* DatabaseConnection and the requests of a call *)

\* getPool() throws unless the pool exists and is connected
PoolAvailable == pool = "connected"

NotConnected == "Database not connected. Call connect() first."

\* an optional field of a tool's arguments
Absent == [present |-> FALSE, val |-> <<>>]
Present(x) == [present |-> TRUE, val |-> x]

\* connect() on a connection whose pool is p: nothing to do if the pool is
\* connected; otherwise a new ConnectionPool, kept if pool.connect() succeeds
\* and dropped, with the error thrown again, if it fails
connect(p, succeeds) ==
    IF p = "connected" THEN [pool |-> p, created |-> 0, threw |-> FALSE]
    ELSE IF succeeds THEN [pool |-> "connected", created |-> 1, threw |-> FALSE]
    ELSE [pool |-> "null", created |-> 1, threw |-> TRUE]

\* what awaiting pool.close() can come to: the pool is closed, or close()
\* rejects and leaves the pool as it was or closed
CloseOutcomes == {"closed", "failed", "failed and closed"}

\* disconnect() on a connection whose pool is p: without a pool nothing
\* happens; pool = null is reached only when pool.close() has resolved
disconnect(p, left) ==
    IF p = "null" THEN [pool |-> "null", threw |-> FALSE]
    ELSE IF left = "closed" THEN [pool |-> "null", threw |-> FALSE]
    ELSE [pool |-> (IF left = "failed" THEN p ELSE "closed"), threw |-> TRUE]

\* cleanup(): disconnect() in a try block whose catch writes to stderr
cleanup(p, left) ==
    [pool |-> disconnect(p, left).pool,
     threw |-> FALSE,
     lastCall |-> IF disconnect(p, left).threw THEN "disconnect failed" ELSE "disconnected"]

\* one request.query call: the text, the parameters given to request.input
\* and the reply of the database: an error, or the number the code reads from
\* the result (rowsAffected of the last record set, the length of the record set)
Request(query, inputs, reply) == [query |-> query, inputs |-> inputs, reply |-> reply]

\* query + '; SELECT @@ROWCOUNT as rowsAffected'
RowCountSuffix == Sql("; ") \o Sql("SELECT @@ROWCOUNT as rowsAffected")

----------------------------------------------------------------------------
(* BulkTools *)

Min(a, b) == IF a < b THEN a ELSE b

\* Math.floor(n / batchSize)
BatchCountFloor(n, batchSize) == n \div batchSize

\* Math.ceil(n / batchSize)
BatchCount(n, batchSize) == (n + batchSize - 1) \div batchSize

\* the k-th batch (k = 1, 2, ...) starts at i = (k - 1) * batchSize
BatchStart(k, batchSize) == (k - 1) * batchSize

\* list.slice(i, i + batchSize)
BatchSlice(list, i, batchSize) == SubSeq(list, i + 1, Min(i + batchSize, Len(list)))

\* BulkParamName without the position of the entry
BulkParamNameByIndex(prefix, position, index) ==
    prefix \o "_" \o ToString(index)

BulkParamName(prefix, position, index) ==
    prefix \o "_" \o ToString(position) \o "_" \o ToString(index)

\* bulkInsert: the columns are the keys of the first row of the batch
BulkInsertInputs(batch, i) ==
    LET columns == Keys(batch[1])
    IN  Flatten([b \in 1..Len(batch) |->
            [c \in 1..Len(columns) |->
                [name |-> BulkParamName("param", i + b - 1, c - 1),
                 value |-> Get(batch[b], columns[c])]]])

BulkInsertQuery(table, batch, i) ==
    LET columns == Keys(batch[1])
        rowPlaceholders(b) ==
            Sql("(")
            \o Join([c \in 1..Len(columns) |-> Ph(BulkParamName("param", i + b - 1, c - 1))],
                    Sql(", "))
            \o Sql(")")
    IN  Sql("INSERT INTO ") \o Ident(table) \o Sql(" ([")
        \o Join([c \in 1..Len(columns) |-> <<Tok("id", columns[c])>>], Sql("], ["))
        \o Sql("]) VALUES ")
        \o Join([b \in 1..Len(batch) |-> rowPlaceholders(b)], Sql(", "))

\* the WHERE clause of batchUpdate and batchDelete for the entry at `position`
BatchConditionText(condition, paramName) ==
    IF IsDefined(condition.value)
    THEN Ident(condition.column) \o Sql(" ") \o <<Tok("op", condition.operator)>>
         \o Sql(" ") \o Ph(paramName)
    ELSE Ident(condition.column) \o Sql(" ") \o <<Tok("op", condition.operator)>>

BatchConditionInputs(condition, paramName) ==
    IF IsDefined(condition.value)
    THEN <<[name |-> paramName, value |-> condition.value]>>
    ELSE <<>>

BatchWhereClauses(where, position) ==
    Join([w \in 1..Len(where) |->
            BatchConditionText(where[w], BulkParamName("where", position, w - 1))],
         Sql(" AND "))

BatchWhereInputs(where, position) ==
    Flatten([w \in 1..Len(where) |->
            BatchConditionInputs(where[w], BulkParamName("where", position, w - 1))])

BatchUpdateStatement(table, update, position) ==
    Sql("UPDATE ") \o Ident(table) \o Sql(" SET ")
    \o Join([c \in 1..Len(update.data) |->
                Ident(update.data[c].name) \o Sql(" = ")
                \o Ph(BulkParamName("update", position, c - 1))],
            Sql(", "))
    \o Sql(" WHERE ") \o BatchWhereClauses(update.where, position)

BatchUpdateEntryInputs(update, position) ==
    [c \in 1..Len(update.data) |->
        [name |-> BulkParamName("update", position, c - 1), value |-> update.data[c].value]]
    \o BatchWhereInputs(update.where, position)

BatchUpdateQuery(table, batch, i) ==
    Join([b \in 1..Len(batch) |-> BatchUpdateStatement(table, batch[b], i + b - 1)], Sql("; "))

BatchUpdateInputs(batch, i) ==
    Flatten([b \in 1..Len(batch) |-> BatchUpdateEntryInputs(batch[b], i + b - 1)])

BatchDeleteStatement(table, deleteCondition, position) ==
    Sql("DELETE FROM ") \o Ident(table)
    \o Sql(" WHERE ") \o BatchWhereClauses(deleteCondition.where, position)

BatchDeleteQuery(table, batch, i) ==
    Join([b \in 1..Len(batch) |-> BatchDeleteStatement(table, batch[b], i + b - 1)], Sql("; "))

BatchDeleteInputs(batch, i) ==
    Flatten([b \in 1..Len(batch) |-> BatchWhereInputs(batch[b].where, i + b - 1)])

\* the request of the k-th batch of bulkInsert, batchUpdate or batchDelete
BatchRequest(kind, table, list, batchSize, k, reply) ==
    LET i == BatchStart(k, batchSize)
        batch == BatchSlice(list, i, batchSize)
    IN  CASE kind = "bulkInsert" ->
                Request(BulkInsertQuery(table, batch, i) \o RowCountSuffix,
                        PutAll(<<>>, BulkInsertInputs(batch, i)), reply)
          [] kind = "batchUpdate" ->
                Request(BatchUpdateQuery(table, batch, i) \o RowCountSuffix,
                        PutAll(<<>>, BatchUpdateInputs(batch, i)), reply)
          [] kind = "batchDelete" ->
                Request(BatchDeleteQuery(table, batch, i) \o RowCountSuffix,
                        PutAll(<<>>, BatchDeleteInputs(batch, i)), reply)

\* the loop over the batches: one request per batch, whatever the replies
BatchRequests(kind, table, list, batchSize, replies) ==
    [k \in 1..BatchCount(Len(list), batchSize) |->
        BatchRequest(kind, table, list, batchSize, k, replies[k])]

RECURSIVE SumRows(_)
SumRows(replies) ==
    IF replies = <<>> THEN 0
    ELSE (IF replies[1].error THEN 0 ELSE replies[1].rows) + SumRows(Tail(replies))

\* errors.push(`Batch ${Math.floor(i / batchSize) + 1}: ${error.message}`)
BatchErrors(replies) ==
    LET failed == {k \in 1..Len(replies) : replies[k].error}
        RECURSIVE upTo(_)
        upTo(k) == IF k = 0 THEN <<>>
                   ELSE upTo(k - 1) \o (IF k \in failed THEN <<[batch |-> k]>> ELSE <<>>)
    IN  upTo(Len(replies))

\* the value bulkInsert, batchUpdate and batchDelete return
BatchResult(n, batchSize, replies) ==
    LET errors == BatchErrors(replies)
    IN  [success |-> Len(errors) = 0,
         totalRowsAffected |-> SumRows(replies),
         batchCount |-> BatchCount(n, batchSize),
         batchSize |-> batchSize,
         errors |-> IF Len(errors) > 0 THEN Present(errors) ELSE Absent]

----------------------------------------------------------------------------
(* CrudTools *)

\* what a method did: it threw `error` or returned `value`, having issued `requests`
Threw(error, requests) ==
    [threw |-> TRUE, error |-> error, value |-> <<>>, requests |-> requests]
Gave(value, requests) ==
    [threw |-> FALSE, error |-> "", value |-> value, requests |-> requests]

DbError == "database error"

\* the common tail of executeInsert, executeUpdate and executeDelete: getPool(),
\* request.input for every entry of inputs, request.query with the row count
ExecuteBuilt(built, reply, extra) ==
    IF ~PoolAvailable THEN Threw(NotConnected, <<>>)
    ELSE LET request == Request(built.query \o RowCountSuffix,
                                PutAll(<<>>, built.inputs), reply)
         IN  IF reply.error THEN Threw(DbError, <<request>>)
             ELSE Gave([success |-> TRUE, rowsAffected |-> reply.rows,
                        query |-> built.query] @@ extra,
                       <<request>>)

\* options.maxRows of executeSelect and executeCustomQuery, by default
DefaultMaxRows == 1000

\* limit: params.limit as it is
SelectLimitAsRequested(limit, maxRows) == limit

\* limit: Math.min(params.limit || options.maxRows, options.maxRows)
SelectLimit(limit, maxRows) == Min(IF limit = 0 THEN maxRows ELSE limit, maxRows)

\* the numbers written into a statement, read back from their text
ParseNum(s) == CHOOSE n \in 0..(DefaultMaxRows + 1) : ToString(n) = s

Unlimited == -1

\* the number of rows a SELECT is restricted to by TOP n or FETCH NEXT n ROWS ONLY
RowLimitOf(text) ==
    LET fetch == {j \in 1..Len(text) - 1 : text[j] = Tok("sql", " ROWS FETCH NEXT ")}
    IN  IF Len(text) >= 2 /\ text[1] = Tok("sql", "SELECT TOP ") THEN ParseNum(text[2][2])
        ELSE IF fetch # {} THEN ParseNum(text[(CHOOSE j \in fetch : TRUE) + 1][2])
        ELSE Unlimited

\* result.recordset.length: the database returns the rows that match, up to
\* the restriction of the statement
RecordsetLength(text, reply) ==
    IF RowLimitOf(text) = Unlimited THEN reply.rows ELSE Min(reply.rows, RowLimitOf(text))

executeSelect(params, reply) ==
    LET queryParams == [table |-> params.table,
                        columns |-> params.columns,
                        where |-> params.where,
                        joins |-> params.joins,
                        orderBy |-> params.orderBy,
                        limit |-> SelectLimit(params.limit, DefaultMaxRows),
                        offset |-> params.offset]
        built == buildSelectQuery(queryParams)
    IN  IF ~PoolAvailable THEN Threw(NotConnected, <<>>)
        ELSE LET request == Request(built.query, PutAll(<<>>, built.inputs), reply)
             IN  IF reply.error THEN Threw(DbError, <<request>>)
                 ELSE Gave([success |-> TRUE,
                            rowCount |-> RecordsetLength(built.query, reply),
                            dataLength |-> RecordsetLength(built.query, reply),
                            query |-> built.query],
                           <<request>>)

executeUpdate(params, reply) ==
    ExecuteBuilt(buildUpdateQuery(params.table, params.data, params.where), reply,
                 [updatedData |-> params.data, whereConditions |-> params.where])

executeDelete(params, reply) ==
    ExecuteBuilt(buildDeleteQuery(params.table, params.where), reply,
                 [whereConditions |-> params.where])

\* The text of a custom query is a sequence of lexical tokens: words (keywords
\* and names, written in upper case), " " (white space), ";" and "(".
IsSpace(tok) == tok = " "
IsWordTok(tok) == tok \notin {" ", ";", "("}

\* params.query.trim()
RECURSIVE TrimLeft(_)
TrimLeft(q) == IF q # <<>> /\ IsSpace(q[1]) THEN TrimLeft(Tail(q)) ELSE q

RECURSIVE TrimRight(_)
TrimRight(q) ==
    IF q # <<>> /\ IsSpace(q[Len(q)]) THEN TrimRight(SubSeq(q, 1, Len(q) - 1)) ELSE q

Trim(q) == TrimRight(TrimLeft(q))

\* cleanQuery.includes(';') and cleanQuery.endsWith(';')
IncludesSemicolon(q) == \E i \in 1..Len(q) : q[i] = ";"
EndsWithSemicolon(q) == q # <<>> /\ q[Len(q)] = ";"

\* \b before the word at i: the text starts there or the token before is no word
WordStartsAt(q, i) == IsWordTok(q[i]) /\ (i = 1 \/ ~IsWordTok(q[i - 1]))

\* /\bdrop\s+/i, /\btruncate\s+/i, /\balter\s+/i, /\bcreate\s+/i
MatchesWordSpace(q, word) ==
    \E i \in 1..Len(q) - 1 : WordStartsAt(q, i) /\ q[i] = word /\ IsSpace(q[i + 1])

\* /\bexec\s*\(/i
MatchesExecCall(q) ==
    \E i \in 1..Len(q), j \in 1..Len(q) :
        /\ i < j
        /\ WordStartsAt(q, i) /\ q[i] = "EXEC"
        /\ q[j] = "("
        /\ \A m \in (i + 1)..(j - 1) : IsSpace(q[m])

\* /\bsp_/i and /\bxp_/i: the words of the alphabet that start with sp_ or xp_
ProcedureWords == {"SP_WHO", "XP_CMDSHELL"}
MatchesProcedure(q) == \E i \in 1..Len(q) : WordStartsAt(q, i) /\ q[i] \in ProcedureWords

Dangerous(q) ==
    \/ \E word \in {"DROP", "TRUNCATE", "ALTER", "CREATE"} : MatchesWordSpace(q, word)
    \/ MatchesExecCall(q)
    \/ MatchesProcedure(q)

MultipleStatements == "Multiple SQL statements are not allowed for security reasons"
DangerousOperation ==
    "Query contains potentially dangerous operations that are not allowed"

executeCustomQuery(params, reply) ==
    LET cleanQuery == Trim(params.query)
    IN  IF IncludesSemicolon(cleanQuery) /\ ~EndsWithSemicolon(cleanQuery)
        THEN Threw(MultipleStatements, <<>>)
        ELSE IF Dangerous(cleanQuery) THEN Threw(DangerousOperation, <<>>)
        ELSE IF ~PoolAvailable THEN Threw(NotConnected, <<>>)
        ELSE LET request == Request(cleanQuery, <<>>, reply)
             IN  IF reply.error THEN Threw(DbError, <<request>>)
                 ELSE Gave([success |-> TRUE,
                            rowCount |-> reply.rows,
                            dataLength |-> Min(reply.rows, DefaultMaxRows),
                            query |-> cleanQuery,
                            truncated |-> reply.rows > DefaultMaxRows],
                           <<request>>)

----------------------------------------------------------------------------
(* BulkTools methods *)

\* RunBatches leaving the loop at the first batch that fails
RunBatchesUntilFailure(kind, table, list, batchSize, replies) ==
    IF ~PoolAvailable THEN Threw(NotConnected, <<>>)
    ELSE LET failed == {k \in 1..Len(replies) : replies[k].error}
             last == IF failed = {} THEN Len(replies)
                     ELSE CHOOSE k \in failed : \A j \in failed : k <= j
         IN  Gave(BatchResult(Len(list), batchSize, SubSeq(replies, 1, last)),
                  SubSeq(BatchRequests(kind, table, list, batchSize, replies), 1, last))

\* bulkInsert, batchUpdate and batchDelete: getPool() first, then every batch
\* in its own try block
RunBatches(kind, table, list, batchSize, replies) ==
    IF ~PoolAvailable THEN Threw(NotConnected, <<>>)
    ELSE Gave(BatchResult(Len(list), batchSize, replies),
              BatchRequests(kind, table, list, batchSize, replies))

bulkInsert(params, replies) ==
    RunBatches("bulkInsert", params.table, params.data, params.batchSize, replies)

batchUpdate(params, replies) ==
    RunBatches("batchUpdate", params.table, params.updates, params.batchSize, replies)

batchDelete(params, replies) ==
    RunBatches("batchDelete", params.table, params.conditions, params.batchSize, replies)

----------------------------------------------------------------------------
(* The schemas of the tools (zod) *)

\* the operators of WhereConditionSchema
Operators == {"=", "!=", ">", "<", ">=", "<=", "LIKE", "IN", "NOT IN", "IS NULL", "IS NOT NULL"}

ValidWhereCondition(c) == c.column # "" /\ c.operator \in Operators

\* ValidWhere without .min(1): an optional array of any length
ValidWhereAnyLength(where) ==
    \A i \in 1..Len(where.val) : ValidWhereCondition(where.val[i])

\* z.array(WhereConditionSchema).min(1)
ValidWhere(where) ==
    /\ where.present
    /\ Len(where.val) >= 1
    /\ \A i \in 1..Len(where.val) : ValidWhereCondition(where.val[i])

\* z.record(...).refine(data => Object.keys(data).length > 0)
ValidData(data) == Len(data) > 0

\* SelectToolSchema: limit is an integer in 1..10000, offset an integer >= 0
SelectMaxLimit == 10000

SelectToolSchema(a) ==
    /\ a.where.present => \A i \in 1..Len(a.where.val) : ValidWhereCondition(a.where.val[i])
    /\ a.limit.present => (1 <= a.limit.val /\ a.limit.val <= SelectMaxLimit)
    /\ a.offset.present => a.offset.val >= 0

\* the parsed arguments of sql_select; buildSelectQuery fills in the defaults
\* of the fields that are undefined, and an undefined number is falsy
OrElse(field, default) == IF field.present THEN field.val ELSE default

ParsedSelect(a) ==
    [table |-> a.table,
     columns |-> OrElse(a.columns, <<<<"*">>>>),
     where |-> OrElse(a.where, <<>>),
     joins |-> OrElse(a.joins, <<>>),
     orderBy |-> OrElse(a.orderBy, <<>>),
     limit |-> OrElse(a.limit, 0),
     offset |-> OrElse(a.offset, 0)]

UpdateToolSchema(a) == a.table # "" /\ ValidData(a.data) /\ ValidWhere(a.where)

DeleteToolSchema(a) == a.table # "" /\ ValidWhere(a.where)

CustomQuerySchema(a) == Len(a.query) >= 1

\* batchSize: z.number().int().min(1).max(...).optional().default(...)
BulkInsertMaxBatchSize == 1000
BulkInsertDefaultBatchSize == 100
BatchMaxBatchSize == 100
BatchDefaultBatchSize == 50

ValidBatchSize(batchSize, max) ==
    batchSize.present => (batchSize.val >= 1 /\ batchSize.val <= max)

BatchSizeOr(batchSize, default) == IF batchSize.present THEN batchSize.val ELSE default

BulkInsertSchema(a) ==
    a.table # "" /\ Len(a.data) >= 1 /\ ValidBatchSize(a.batchSize, BulkInsertMaxBatchSize)

BatchUpdateSchema(a) ==
    /\ a.table # ""
    /\ Len(a.updates) >= 1
    /\ \A i \in 1..Len(a.updates) :
            ValidData(a.updates[i].data) /\ ValidWhere(a.updates[i].where)
    /\ ValidBatchSize(a.batchSize, BatchMaxBatchSize)

BatchDeleteSchema(a) ==
    /\ a.table # ""
    /\ Len(a.conditions) >= 1
    /\ \A i \in 1..Len(a.conditions) : ValidWhere(a.conditions[i].where)
    /\ ValidBatchSize(a.batchSize, BatchMaxBatchSize)

\* what Schema.parse returns for arguments the schema accepts
ParsedWhere(a) == [a EXCEPT !.where = a.where.val]

ParsedBulkInsert(a) ==
    [a EXCEPT !.batchSize = BatchSizeOr(a.batchSize, BulkInsertDefaultBatchSize)]

ParsedBatchUpdate(a) ==
    [table |-> a.table,
     updates |-> [i \in 1..Len(a.updates) |-> ParsedWhere(a.updates[i])],
     batchSize |-> BatchSizeOr(a.batchSize, BatchDefaultBatchSize)]

ParsedBatchDelete(a) ==
    [table |-> a.table,
     conditions |-> [i \in 1..Len(a.conditions) |-> ParsedWhere(a.conditions[i])],
     batchSize |-> BatchSizeOr(a.batchSize, BatchDefaultBatchSize)]

----------------------------------------------------------------------------
(* The tool handlers of SqlServerMcpServer *)

ValidationError == "ZodError"

\* handleError: the response of a handler whose try block threw
handleError(error, toolName) ==
    [isError |-> TRUE, body |-> [success |-> FALSE, error |-> error, tool |-> toolName]]

\* ToolResponse without the catch around the method of the tools
ToolResponseUncaught(toolName, valid, outcome) ==
    IF ~valid THEN handleError(ValidationError, toolName)
    ELSE [isError |-> FALSE, body |-> outcome.value]

\* a handler: Schema.parse(args), the method of the tools, the response
ToolResponse(toolName, valid, outcome) ==
    IF ~valid THEN handleError(ValidationError, toolName)
    ELSE IF outcome.threw THEN handleError(outcome.error, toolName)
    ELSE [isError |-> FALSE, body |-> outcome.value]

ToolRequests(valid, outcome) == IF valid THEN outcome.requests ELSE <<>>

----------------------------------------------------------------------------
(* DatabaseConnection: getPool, testConnection, getServerInfo *)

\* getPool without the test of this.pool and pool.connected
getPoolUnchecked == Gave("pool", <<>>)

\* getPool(): the pool if it is there and connected, an Error otherwise
getPool ==
    IF ~PoolAvailable THEN Threw(NotConnected, <<>>) ELSE Gave("pool", <<>>)

\* testConnection(): getPool() and the query in a try block; false on any error
testConnection(reply) ==
    IF getPool.threw THEN Gave(FALSE, <<>>)
    ELSE Gave(~reply.error, <<Request(Sql("SELECT 1 as test"), <<>>, reply)>>)

\* getServerInfo(): nothing is caught
getServerInfo(reply) ==
    IF getPool.threw THEN Threw(getPool.error, <<>>)
    ELSE LET request == Request(Sql("SELECT @@VERSION as version, SERVERPROPERTY('Edition') as edition"),
                                <<>>, reply)
         IN  IF reply.error THEN Threw(DbError, <<request>>)
             ELSE Gave([version |-> "version", edition |-> "edition"], <<request>>)

ConnectionTestFailed == "Connection test failed"

\* the handler of sql_test_connection: testConnection(), then getServerInfo()
\* if the test passed; the outcome of a failed test is an ordinary response
sqlTestConnection(test, info) ==
    LET tested == testConnection(test)
        served == getServerInfo(info)
    IN  IF ~tested.value
        THEN [response |-> [isError |-> FALSE,
                            body |-> [success |-> FALSE, connected |-> FALSE,
                                      error |-> ConnectionTestFailed]],
              requests |-> tested.requests]
        ELSE [response |-> IF served.threw
                           THEN handleError(served.error, "sql_test_connection")
                           ELSE [isError |-> FALSE,
                                 body |-> [success |-> TRUE, connected |-> TRUE,
                                           serverInfo |-> served.value]],
              requests |-> tested.requests \o served.requests]

----------------------------------------------------------------------------
(* TransactionTools *)

IsolationLevels ==
    {"READ_UNCOMMITTED", "READ_COMMITTED", "REPEATABLE_READ", "SNAPSHOT", "SERIALIZABLE"}

BeginTransactionSchema(a) ==
    a.isolationLevel.present => a.isolationLevel.val \in IsolationLevels

\* .optional().default('READ_COMMITTED')
ParsedBegin(a) ==
    [a EXCEPT !.isolationLevel =
        IF a.isolationLevel.present THEN a.isolationLevel.val ELSE "READ_COMMITTED"]

\* z.string().min(1)
CreateSavepointSchema(a) == a.savepointName # ""

getIsolationLevelSql(level) ==
    CASE level = "READ_UNCOMMITTED" -> "READ UNCOMMITTED"
      [] level = "READ_COMMITTED" -> "READ COMMITTED"
      [] level = "REPEATABLE_READ" -> "REPEATABLE READ"
      [] level = "SNAPSHOT" -> "SNAPSHOT"
      [] level = "SERIALIZABLE" -> "SERIALIZABLE"
      [] OTHER -> "READ COMMITTED"

\* if (params.name): an absent or empty string is falsy
Given(name) == name.present /\ name.val # ""

\* `[${name}]`: the name goes into the text as it is
Named(name) == Sql(" [") \o <<Tok("raw", name)>> \o Sql("]")

\* the common shape of the four methods: getPool(), pool.request(), one
\* request.query, nothing caught
RunStatement(query, reply, value) ==
    IF getPool.threw THEN Threw(getPool.error, <<>>)
    ELSE LET request == Request(query, <<>>, reply)
         IN  IF reply.error THEN Threw(DbError, <<request>>)
             ELSE Gave(value, <<request>>)

beginTransaction(params, reply) ==
    RunStatement(Sql("SET TRANSACTION ISOLATION LEVEL ")
                    \o Sql(getIsolationLevelSql(params.isolationLevel))
                    \o Sql("; ") \o Sql("BEGIN TRANSACTION")
                    \o (IF Given(params.transactionName)
                        THEN Named(params.transactionName.val) ELSE <<>>),
                 reply,
                 [success |-> TRUE, transactionStarted |-> TRUE,
                  isolationLevel |-> params.isolationLevel,
                  transactionName |-> params.transactionName])

commitTransaction(params, reply) ==
    RunStatement(Sql("COMMIT TRANSACTION")
                    \o (IF Given(params.transactionName)
                        THEN Named(params.transactionName.val) ELSE <<>>),
                 reply,
                 [success |-> TRUE, transactionCommitted |-> TRUE,
                  transactionName |-> params.transactionName])

rollbackTransaction(params, reply) ==
    RunStatement(Sql("ROLLBACK TRANSACTION")
                    \o (IF Given(params.savepoint) THEN Named(params.savepoint.val)
                        ELSE IF Given(params.transactionName)
                        THEN Named(params.transactionName.val) ELSE <<>>),
                 reply,
                 [success |-> TRUE, transactionRolledBack |-> TRUE,
                  transactionName |-> params.transactionName,
                  savepoint |-> params.savepoint])

createSavepoint(params, reply) ==
    RunStatement(Sql("SAVE TRANSACTION") \o Named(params.savepointName),
                 reply,
                 [success |-> TRUE, savepointCreated |-> TRUE,
                  savepointName |-> params.savepointName])

----------------------------------------------------------------------------
(* Inputs *)

Tables == {"t"}
Columns == {"a"}
Scalars == {"v1", "v2"}

ArrayOfLen(n) == Array([i \in 1..n |-> "v" \o ToString(i)])
Arrays == {ArrayOfLen(n) : n \in 0..MaxInLen}

\* predicates: a comparison and the two null tests with and without a value,
\* the two membership tests with a scalar and with arrays of every length
Conditions ==
    [column : Columns, operator : {"=", "IS NULL", "IS NOT NULL"},
     value : {Undefined, Scalar("v1")}]
    \cup [column : Columns, operator : {"IN", "NOT IN"}, value : {Scalar("v1")} \cup Arrays]

SeqsUpTo(S, n) == UNION {[1..k -> S] : k \in 0..n}

Wheres == SeqsUpTo(Conditions, MaxWhere)

Entry(k, x) == [name |-> k, value |-> Scalar(x)]

\* records of columns to values; the last has the name buildUpdateQuery
\* generates for the first element of a membership predicate
DataSample ==
    { <<>>,
      <<Entry("a", "v1")>>,
      <<Entry("b", "v2"), Entry("a", "v1")>>,
      <<Entry("where_param1000_0", "v2")>> }

SelectParams ==
    [table : Tables,
     columns : {<<<<"*">>>>, <<<<"a">>, <<"b">>>>},
     where : Wheres,
     joins : {<<>>, <<[type |-> "INNER", table |-> "u", on |-> "t.id = u.id"],
                      [type |-> "LEFT", table |-> "w", on |-> "u.id = w.id"]>>},
     orderBy : {<<>>, <<[column |-> "a", direction |-> "DESC"],
                        [column |-> "b", direction |-> "ASC"]>>},
     limit : {0, 10},
     offset : {0, 20}]

\* the replies of the database to one request
RowSample == {1, DefaultMaxRows + 1}
DbReplies == [error : {TRUE}, rows : {0}] \cup [error : {FALSE}, rows : RowSample]

\* one reply per batch
RepliesFor(n, batchSize) == [1..BatchCount(n, batchSize) -> DbReplies]

OptionalWheres == {Absent} \cup {Present(w) : w \in Wheres}

UpdateToolArgs == [table : Tables, data : DataSample, where : OptionalWheres]

DeleteToolArgs == [table : Tables, where : OptionalWheres]

\* the where lists of the entries of a batch: missing, empty, one predicate of
\* each kind, and two predicates
BatchConditionSample ==
    { [column |-> "a", operator |-> "=", value |-> Scalar("v1")],
      [column |-> "a", operator |-> "=", value |-> Undefined],
      [column |-> "a", operator |-> "IS NULL", value |-> Undefined],
      [column |-> "a", operator |-> "IS NULL", value |-> Scalar("v1")],
      [column |-> "a", operator |-> "IN", value |-> ArrayOfLen(MaxInLen)] }

BatchWheres ==
    {Absent, Present(<<>>)}
    \cup {Present(<<c>>) : c \in BatchConditionSample}
    \cup {Present(<<[column |-> "b", operator |-> "!=", value |-> Scalar("v2")],
                    [column |-> "a", operator |-> "=", value |-> Scalar("v1")]>>)}

SeqsFromTo(S, m, n) == UNION {[1..k -> S] : k \in m..n}

BatchSizes == {Absent, Present(1), Present(2)}

BatchDeleteArgs ==
    [table : Tables,
     conditions : SeqsFromTo([where : BatchWheres], 0, MaxEntries),
     batchSize : BatchSizes]

BatchUpdateArgs ==
    [table : Tables,
     updates : SeqsFromTo([data : {<<>>, <<Entry("a", "v1")>>,
                                   <<Entry("b", "v2"), Entry("a", "v1")>>},
                           where : BatchWheres], 0, MaxEntries),
     batchSize : BatchSizes]

\* the rows of a bulk insert: records over the columns a and b
RowSamples ==
    { <<>>,
      <<Entry("a", "v1")>>,
      <<Entry("a", "v2")>>,
      <<Entry("b", "v1")>>,
      <<Entry("a", "v1"), Entry("b", "v2")>>,
      <<Entry("b", "v1"), Entry("a", "v2")>> }

BulkInsertArgs ==
    [table : Tables, data : SeqsFromTo(RowSamples, 0, MaxEntries), batchSize : BatchSizes]

\* the arguments of sql_select: every field but the table is optional; the
\* limits are below, at and above the row ceiling, and out of range
SelectToolArgs ==
    [table : Tables,
     columns : {Absent, Present(<<<<"a">>>>)},
     where : {Absent, Present(<<[column |-> "a", operator |-> "=", value |-> Scalar("v1")]>>)},
     joins : {Absent},
     orderBy : {Absent, Present(<<[column |-> "a", direction |-> "DESC"]>>)},
     limit : {Absent, Present(0), Present(10), Present(DefaultMaxRows), Present(DefaultMaxRows + 1)},
     offset : {Absent, Present(0), Present(20)}]

\* the alphabet of the custom queries
QueryTokens == {"SELECT", "DELETE", "DROP", "EXEC", "SP_WHO", "T", "(", " ", ";"}

CustomQueryArgs == [query : SeqsUpTo(QueryTokens, MaxQueryLen)]

----------------------------------------------------------------------------
(* The state machine: the server is idle (op = "none") or has just served *)
(* a call, whose arguments, result and requests the state records         *)

Names == {Absent, Present(""), Present("n")}

BeginTransactionArgs ==
    [isolationLevel : {Absent, Present("SERIALIZABLE"), Present("CHAOS")},
     transactionName : Names]

CommitTransactionArgs == [transactionName : Names]

RollbackTransactionArgs == [transactionName : Names, savepoint : {Absent, Present("s")}]

CreateSavepointArgs == [savepointName : {"", "s"}]

Idle == op = "none"

Builders == {"buildSelectQuery", "buildInsertQuery", "buildUpdateQuery", "buildDeleteQuery"}
WhereBuilders == {"buildSelectQuery", "buildUpdateQuery", "buildDeleteQuery"}

\* Listening with the transport attached by the constructor
ListeningFromConstruction == server \in {"constructed", "serving", "stopping"}

\* the handlers run while the process lives: after start() and until exit
Listening == server \in {"serving", "stopping"}

NoCall == [op |-> "none", args |-> <<>>, result |-> <<>>]

\* the server after a successful start()
Init ==
    /\ pool = "connected"
    /\ server = "serving"
    /\ op = "none"
    /\ args = <<>>
    /\ result = <<>>
    /\ sent = <<>>
    /\ memo = NoCall
    /\ calls = 0
    /\ created = 1
    /\ lastCall = "connected"
    /\ exitCode = Absent
    /\ poolMax = 1
    /\ acquired = <<>>
    /\ tx = 0

\* a call of a pure function of QueryBuilder
Returned(name, a, r) ==
    /\ op' = name
    /\ args' = a
    /\ result' = r
    /\ sent' = <<>>
    /\ UNCHANGED <<pool, server, memo, calls, created, lastCall, exitCode, poolMax, acquired, tx>>

BuildSelect ==
    /\ Idle
    /\ \E params \in SelectParams :
        Returned("buildSelectQuery", params, buildSelectQuery(params))

BuildInsert ==
    /\ Idle
    /\ \E table \in Tables, data \in DataSample :
        Returned("buildInsertQuery", [table |-> table, data |-> data],
                 buildInsertQuery(table, data))

BuildUpdate ==
    /\ Idle
    /\ \E table \in Tables, data \in DataSample, where \in Wheres :
        Returned("buildUpdateQuery", [table |-> table, data |-> data, where |-> where],
                 buildUpdateQuery(table, data, where))

BuildDelete ==
    /\ Idle
    /\ \E table \in Tables, where \in Wheres :
        Returned("buildDeleteQuery", [table |-> table, where |-> where],
                 buildDeleteQuery(table, where))

\* a call of a tool: the handler parses the arguments, runs the method and responds
\* every request.query takes one of the pool's connections, whichever the
\* pool hands out, and gives it back when the query is done
Served(toolName, a, response, requests) ==
    /\ op' = toolName
    /\ args' = a
    /\ result' = response
    /\ sent' = requests
    /\ acquired' \in [1..Len(requests) -> 1..poolMax]
    /\ UNCHANGED <<pool, server, memo, calls, created, lastCall, exitCode, poolMax>>

Handled(toolName, a, valid, outcome) ==
    /\ Served(toolName, a, ToolResponse(toolName, valid, outcome), ToolRequests(valid, outcome))
    /\ UNCHANGED tx

SqlSelect ==
    /\ Idle
    /\ Listening
    /\ \E a \in SelectToolArgs, reply \in DbReplies :
        Handled("sql_select", a, SelectToolSchema(a), executeSelect(ParsedSelect(a), reply))

SqlUpdate ==
    /\ Idle
    /\ Listening
    /\ \E a \in UpdateToolArgs, reply \in DbReplies :
        Handled("sql_update", a, UpdateToolSchema(a), executeUpdate(ParsedWhere(a), reply))

SqlDelete ==
    /\ Idle
    /\ Listening
    /\ \E a \in DeleteToolArgs, reply \in DbReplies :
        Handled("sql_delete", a, DeleteToolSchema(a), executeDelete(ParsedWhere(a), reply))

SqlQuery ==
    /\ Idle
    /\ Listening
    /\ \E a \in CustomQueryArgs, reply \in DbReplies :
        Handled("sql_query", a, CustomQuerySchema(a), executeCustomQuery(a, reply))

SqlBulkInsert ==
    /\ Idle
    /\ Listening
    /\ \E a \in BulkInsertArgs :
        \E replies \in RepliesFor(Len(a.data), BatchSizeOr(a.batchSize, BulkInsertDefaultBatchSize)) :
            Handled("sql_bulk_insert", a, BulkInsertSchema(a),
                    bulkInsert(ParsedBulkInsert(a), replies))

SqlBatchUpdate ==
    /\ Idle
    /\ Listening
    /\ \E a \in BatchUpdateArgs :
        \E replies \in RepliesFor(Len(a.updates), BatchSizeOr(a.batchSize, BatchDefaultBatchSize)) :
            Handled("sql_batch_update", a, BatchUpdateSchema(a),
                    batchUpdate(ParsedBatchUpdate(a), replies))

SqlBatchDelete ==
    /\ Idle
    /\ Listening
    /\ \E a \in BatchDeleteArgs :
        \E replies \in RepliesFor(Len(a.conditions), BatchSizeOr(a.batchSize, BatchDefaultBatchSize)) :
            Handled("sql_batch_delete", a, BatchDeleteSchema(a),
                    batchDelete(ParsedBatchDelete(a), replies))

SqlTestConnection ==
    /\ Idle
    /\ Listening
    /\ \E test \in DbReplies, info \in DbReplies :
        LET outcome == sqlTestConnection(test, info)
        IN  Served("sql_test_connection", <<>>, outcome.response, outcome.requests)
    /\ UNCHANGED tx

\* the statement of a transaction tool ran on the connection acquired for it;
\* the database refuses COMMIT, ROLLBACK and SAVE on a connection that has no
\* transaction open
OnOpenTransaction(reply) ==
    (Len(acquired') = 1 /\ acquired'[1] # tx) => reply.error

SqlBeginTransaction ==
    /\ Idle
    /\ Listening
    /\ \E a \in BeginTransactionArgs, reply \in DbReplies :
        /\ Served("sql_begin_transaction", a,
                  ToolResponse("sql_begin_transaction", BeginTransactionSchema(a),
                               beginTransaction(ParsedBegin(a), reply)),
                  ToolRequests(BeginTransactionSchema(a), beginTransaction(ParsedBegin(a), reply)))
        /\ tx' = (IF tx = 0 /\ Len(acquired') = 1 /\ ~reply.error THEN acquired'[1] ELSE tx)

SqlCommitTransaction ==
    /\ Idle
    /\ Listening
    /\ \E a \in CommitTransactionArgs, reply \in DbReplies :
        /\ Served("sql_commit_transaction", a,
                  ToolResponse("sql_commit_transaction", TRUE, commitTransaction(a, reply)),
                  ToolRequests(TRUE, commitTransaction(a, reply)))
        /\ OnOpenTransaction(reply)
        /\ tx' = (IF Len(acquired') = 1 /\ ~reply.error THEN 0 ELSE tx)

SqlRollbackTransaction ==
    /\ Idle
    /\ Listening
    /\ \E a \in RollbackTransactionArgs, reply \in DbReplies :
        /\ Served("sql_rollback_transaction", a,
                  ToolResponse("sql_rollback_transaction", TRUE, rollbackTransaction(a, reply)),
                  ToolRequests(TRUE, rollbackTransaction(a, reply)))
        /\ OnOpenTransaction(reply)
        /\ tx' = (IF Len(acquired') = 1 /\ ~reply.error /\ ~Given(a.savepoint) THEN 0 ELSE tx)

SqlCreateSavepoint ==
    /\ Idle
    /\ Listening
    /\ \E a \in CreateSavepointArgs, reply \in DbReplies :
        /\ Served("sql_create_savepoint", a,
                  ToolResponse("sql_create_savepoint", CreateSavepointSchema(a),
                               createSavepoint(a, reply)),
                  ToolRequests(CreateSavepointSchema(a), createSavepoint(a, reply)))
        /\ OnOpenTransaction(reply)
        /\ UNCHANGED tx

\* the call is over; the next one starts from the same connection state
Return ==
    /\ ~Idle
    /\ op' = "none"
    /\ args' = <<>>
    /\ result' = <<>>
    /\ sent' = <<>>
    /\ acquired' = <<>>
    /\ UNCHANGED <<pool, server, memo, calls, created, lastCall, exitCode, poolMax, tx>>

Next ==
    \/ BuildSelect
    \/ BuildInsert
    \/ BuildUpdate
    \/ BuildDelete
    \/ SqlSelect
    \/ SqlUpdate
    \/ SqlDelete
    \/ SqlQuery
    \/ SqlBulkInsert
    \/ SqlBatchUpdate
    \/ SqlBatchDelete
    \/ SqlTestConnection
    \/ Return

Spec == Init /\ [][Next]_vars

----------------------------------------------------------------------------
(* The life of the process: start(), the pool, the signals, the exit *)

\* the server as constructed: no pool yet
ServerInit ==
    /\ pool = "null"
    /\ server = "constructed"
    /\ op = "none"
    /\ args = <<>>
    /\ result = <<>>
    /\ sent = <<>>
    /\ memo = NoCall
    /\ calls = 0
    /\ created = 0
    /\ lastCall = "none"
    /\ exitCode = Absent
    /\ poolMax = 1
    /\ acquired = <<>>
    /\ tx = 0

\* start(): db.connect() and server.connect(transport) succeed
StartOk ==
    /\ server = "constructed"
    /\ pool' = connect(pool, TRUE).pool
    /\ created' = created + connect(pool, TRUE).created
    /\ lastCall' = "connected"
    /\ server' = "serving"
    /\ UNCHANGED <<op, args, result, sent, memo, calls, exitCode, poolMax, acquired, tx>>

\* start(): db.connect() throws and leaves pool = null, or the transport
\* throws after it; the catch block runs cleanup() and process.exit(1)
StartFailed ==
    /\ server = "constructed"
    /\ \E connects \in BOOLEAN, left \in CloseOutcomes :
        LET c == connect(pool, connects)
            d == cleanup(c.pool, left)
        IN  /\ pool' = d.pool
            /\ created' = created + c.created
            /\ lastCall' = d.lastCall
    /\ server' = "exited"
    /\ exitCode' = Present(1)
    /\ UNCHANGED <<op, args, result, sent, memo, calls, poolMax, acquired, tx>>

\* the driver closes the pool: pool.connected is false from then on; the
\* 'error' listener that connect() installs writes the error to stderr
PoolLost ==
    /\ pool = "connected"
    /\ pool' = "closed"
    /\ UNCHANGED <<server, op, args, result, sent, memo, calls,
                   created, lastCall, exitCode, poolMax, acquired, tx>>

\* SIGINT, SIGTERM, uncaughtException, unhandledRejection: cleanup() calls
\* disconnect(), which awaits pool.close() if there is a pool
Cleanup ==
    /\ server = "serving"
    /\ server' = "stopping"
    /\ pool' = (IF pool = "null" THEN "null" ELSE "closed")
    /\ UNCHANGED <<op, args, result, sent, memo, calls,
                   created, lastCall, exitCode, poolMax, acquired, tx>>

\* pool.close() settles, cleanup() returns, process.exit(0) after a signal
\* and process.exit(1) after an uncaught error
Exit ==
    /\ server = "stopping"
    /\ \E left \in CloseOutcomes :
        /\ pool' = cleanup(pool, left).pool
        /\ lastCall' = cleanup(pool, left).lastCall
    /\ server' = "exited"
    /\ exitCode' \in {Present(0), Present(1)}
    /\ UNCHANGED <<op, args, result, sent, memo, calls, created, poolMax, acquired, tx>>

ServerNext ==
    \/ StartOk
    \/ StartFailed
    \/ PoolLost
    \/ Cleanup
    \/ Exit
    \/ SqlSelect
    \/ Return

ServerSpec == ServerInit /\ [][ServerNext]_vars

\* calls keep arriving while the process lives, and every call returns; the
\* signals and the loss of the pool are up to the environment
LiveServerSpec ==
    ServerSpec /\ WF_vars(SqlSelect) /\ WF_vars(Return)

----------------------------------------------------------------------------
(* The process with more of its tools *)

ProcessNext ==
    \/ StartOk
    \/ StartFailed
    \/ PoolLost
    \/ Cleanup
    \/ Exit
    \/ SqlSelect
    \/ SqlDelete
    \/ SqlBatchDelete
    \/ SqlTestConnection
    \/ SqlBeginTransaction
    \/ Return

ProcessSpec == ServerInit /\ [][ProcessNext]_vars

----------------------------------------------------------------------------
(* Transactions over a pool of several connections *)

MaxPoolSize == 2

\* the server after a successful start(), whatever SQLSERVER_POOL_MAX is
TransactionInit ==
    /\ pool = "connected"
    /\ server = "serving"
    /\ op = "none"
    /\ args = <<>>
    /\ result = <<>>
    /\ sent = <<>>
    /\ memo = NoCall
    /\ calls = 0
    /\ created = 1
    /\ lastCall = "connected"
    /\ exitCode = Absent
    /\ poolMax \in 1..MaxPoolSize
    /\ acquired = <<>>
    /\ tx = 0

TransactionNext ==
    \/ SqlBeginTransaction
    \/ SqlCommitTransaction
    \/ SqlRollbackTransaction
    \/ SqlCreateSavepoint
    \/ SqlDelete
    \/ Return

TransactionSpec == TransactionInit /\ [][TransactionNext]_vars

----------------------------------------------------------------------------
(* DatabaseConnection under any order of calls of its methods *)

MaxPools == 3

\* a call of a method of DatabaseConnection
Invoked(name, outcome) ==
    /\ op' = name
    /\ args' = <<>>
    /\ result' = [threw |-> outcome.threw, error |-> outcome.error, value |-> outcome.value]
    /\ sent' = outcome.requests
    /\ acquired' \in [1..Len(outcome.requests) -> 1..poolMax]
    /\ UNCHANGED <<server, memo, calls, exitCode, poolMax, tx>>

Connect ==
    /\ Idle
    /\ created < MaxPools
    /\ \E succeeds \in BOOLEAN :
        LET c == connect(pool, succeeds)
        IN  /\ Invoked("connect", IF c.threw THEN Threw("connection error", <<>>)
                                  ELSE Gave(<<>>, <<>>))
            /\ pool' = c.pool
            /\ created' = created + c.created
            /\ lastCall' = (IF c.threw THEN "connect failed" ELSE "connected")

Disconnect ==
    /\ Idle
    /\ \E left \in CloseOutcomes :
        LET d == disconnect(pool, left)
        IN  /\ Invoked("disconnect", IF d.threw THEN Threw("close error", <<>>)
                                     ELSE Gave(<<>>, <<>>))
            /\ pool' = d.pool
            /\ lastCall' = (IF d.threw THEN "disconnect failed" ELSE "disconnected")
            /\ UNCHANGED created

GetPool ==
    /\ Idle
    /\ Invoked("getPool", getPool)
    /\ UNCHANGED <<pool, created, lastCall>>

TestConnection ==
    /\ Idle
    /\ \E reply \in DbReplies : Invoked("testConnection", testConnection(reply))
    /\ UNCHANGED <<pool, created, lastCall>>

GetServerInfo ==
    /\ Idle
    /\ \E reply \in DbReplies : Invoked("getServerInfo", getServerInfo(reply))
    /\ UNCHANGED <<pool, created, lastCall>>

ConnectionNext ==
    \/ Connect
    \/ Disconnect
    \/ PoolLost
    \/ GetPool
    \/ TestConnection
    \/ GetServerInfo
    \/ Return

ConnectionSpec == ServerInit /\ [][ConnectionNext]_vars

----------------------------------------------------------------------------
(* Calls of the builders in a row: one earlier call is kept in memo *)

SmallWheres ==
    { <<>>,
      <<[column |-> "a", operator |-> "=", value |-> Scalar("v1")]>>,
      <<[column |-> "a", operator |-> "IN", value |-> ArrayOfLen(MaxInLen)]>>,
      <<[column |-> "a", operator |-> "IS NULL", value |-> Undefined],
        [column |-> "b", operator |-> "!=", value |-> Scalar("v2")]>> }

SmallSelectParams ==
    [table : Tables,
     columns : {<<<<"*">>>>},
     where : SmallWheres,
     joins : {<<>>},
     orderBy : {<<>>, <<[column |-> "a", direction |-> "DESC"]>>},
     limit : {0, 10},
     offset : {0, 20}]

\* a call of a builder after `calls` earlier ones
Called(name, a, r) ==
    /\ op' = name
    /\ args' = a
    /\ result' = r
    /\ sent' = <<>>
    /\ calls' = calls + 1
    /\ UNCHANGED <<pool, server, memo, created, lastCall, exitCode, poolMax, acquired, tx>>

CallSelect ==
    /\ Idle
    /\ calls < MaxCalls
    /\ \E params \in SmallSelectParams :
        Called("buildSelectQuery", params, buildSelectQuery(params))

CallInsert ==
    /\ Idle
    /\ calls < MaxCalls
    /\ \E table \in Tables, data \in DataSample :
        Called("buildInsertQuery", [table |-> table, data |-> data],
               buildInsertQuery(table, data))

CallUpdate ==
    /\ Idle
    /\ calls < MaxCalls
    /\ \E table \in Tables, data \in DataSample, where \in SmallWheres :
        Called("buildUpdateQuery", [table |-> table, data |-> data, where |-> where],
               buildUpdateQuery(table, data, where))

CallDelete ==
    /\ Idle
    /\ calls < MaxCalls
    /\ \E table \in Tables, where \in SmallWheres :
        Called("buildDeleteQuery", [table |-> table, where |-> where],
               buildDeleteQuery(table, where))

\* the call returns and is kept for comparison with a later one
Remember ==
    /\ op \in Builders
    /\ memo' = [op |-> op, args |-> args, result |-> result]
    /\ op' = "none"
    /\ args' = <<>>
    /\ result' = <<>>
    /\ sent' = <<>>
    /\ UNCHANGED <<pool, server, calls, created, lastCall, exitCode, poolMax, acquired, tx>>

BuilderNext ==
    \/ CallSelect
    \/ CallInsert
    \/ CallUpdate
    \/ CallDelete
    \/ Remember
    \/ Return

BuilderSpec == Init /\ [][BuilderNext]_vars

----------------------------------------------------------------------------
(* Reading a statement back from its text *)


IsMembership(c) == c.operator \in {"IN", "NOT IN"}
IsNullTest(c) == c.operator \in {"IS NULL", "IS NOT NULL"}

\* a statement that writes or defines: the keyword, white space, what it acts on
WriteKeywords == {"INSERT", "UPDATE", "DELETE", "MERGE"}
DdlKeywords == {"DROP", "TRUNCATE", "ALTER", "CREATE"}
IsWriteOrDdl(q) ==
    /\ Len(q) >= 3
    /\ q[1] \in WriteKeywords \cup DdlKeywords
    /\ IsSpace(q[2])
    /\ IsWordTok(q[3])

\* a ';' with a statement before it and a statement after it
SeparatesStatements(q, i) ==
    /\ q[i] = ";"
    /\ \E h \in 1..(i - 1) : IsWordTok(q[h])
    /\ \E j \in (i + 1)..Len(q) : IsWordTok(q[j])

HasTwoStatements(q) == \E i \in 1..Len(q) : SeparatesStatements(q, i)

Rejected == result.isError /\ Len(sent) = 0

IndexOfTok(text, tok) ==
    LET hits == {i \in 1..Len(text) : text[i] = tok}
    IN  IF hits = {} THEN 0 ELSE CHOOSE i \in hits : \A j \in hits : i <= j

\* the pieces of a text between the occurrences of a separator
RECURSIVE SplitAt(_, _)
SplitAt(text, sep) ==
    LET i == IndexOfTok(text, sep)
    IN  IF i = 0 THEN <<text>>
        ELSE <<SubSeq(text, 1, i - 1)>> \o SplitAt(SubSeq(text, i + 1, Len(text)), sep)

HasWhereClause(text) == IndexOfTok(text, Tok("sql", " WHERE ")) # 0

\* the text after WHERE, up to the clause that follows it
WherePart(text) ==
    LET i == IndexOfTok(text, Tok("sql", " WHERE "))
        rest == SubSeq(text, i + 1, Len(text))
        ends == {j \in 1..Len(rest) :
                    rest[j] \in {Tok("sql", " ORDER BY "), Tok("sql", " OFFSET ")}}
        end == IF ends = {} THEN Len(rest) + 1 ELSE CHOOSE j \in ends : \A m \in ends : j <= m
    IN  IF i = 0 THEN <<>> ELSE SubSeq(rest, 1, end - 1)

\* the conditions of a statement, in order
ConditionsOf(text) ==
    IF HasWhereClause(text) THEN SplitAt(WherePart(text), Tok("sql", " AND ")) ELSE <<>>

IsPh(tok) == tok[1] = "ph"
IsId(tok) == tok[1] = "id"

\* the placeholder names, the identifiers of a text, in order
PhSeq(text) == LET phs == SelectSeq(text, IsPh) IN [i \in 1..Len(phs) |-> phs[i][2]]
IdSeq(text) == LET ids == SelectSeq(text, IsId) IN [i \in 1..Len(ids) |-> ids[i][2]]

Occurrences(text, name) == Cardinality({i \in 1..Len(text) : text[i] = Tok("ph", name)})

\* a text up to the names of its parameters
Unnamed(text) == [i \in 1..Len(text) |-> IF IsPh(text[i]) THEN Tok("ph", "?") ELSE text[i]]

\* the values bound to the placeholders of a text, in order
BoundValues(text, inputs) ==
    LET names == PhSeq(text) IN [i \in 1..Len(names) |-> Get(inputs, names[i])]

\* a membership predicate whose value is no array pushes no condition
PushesCondition(c) == ~IsMembership(c) \/ IsArray(c.value)

\* the condition of the i-th predicate among the conditions of the statement
ConditionOfPredicate(text, where, i) ==
    ConditionsOf(text)[Cardinality({k \in 1..i : PushesCondition(where[k])})]

MissingOrEmpty(where) == ~where.present \/ Len(where.val) = 0

----------------------------------------------------------------------------
(* The claims *)

\* C1: sql_query sends only SELECT statements: a query whose statement is an
\* INSERT, UPDATE, DELETE, MERGE or DDL statement fails with an error before
\* any request.query is issued.
C1_OnlySelectIsSent ==
    (op = "sql_query" /\ IsWriteOrDdl(Trim(args.query))) => Rejected

\* C2: a query text in which a ';' separates two statements, whether or not
\* the text also ends with ';', is rejected and nothing is executed.
C2_MultipleStatementsRejected ==
    (op = "sql_query" /\ HasTwoStatements(Trim(args.query))) => Rejected

\* the values a description may differ in: the scalar values of record
\* columns and of predicates that are neither null tests nor membership tests
ProbeValues == {"v0", "'; DROP TABLE t; --"}

WithValue(value, u) == IF value.t = "scalar" THEN Scalar(u) ELSE value

WithConditionValue(c, u) ==
    IF ~IsMembership(c) /\ ~IsNullTest(c) THEN [c EXCEPT !.value = WithValue(@, u)] ELSE c

WithWhereValues(where, u) == [i \in 1..Len(where) |-> WithConditionValue(where[i], u)]

WithDataValues(data, u) ==
    [i \in 1..Len(data) |-> [name |-> data[i].name, value |-> WithValue(data[i].value, u)]]

Texts(requests) == [k \in 1..Len(requests) |-> requests[k].query]
Replies(requests) == [k \in 1..Len(requests) |-> requests[k].reply]

NoValueInText(text) == \A i \in 1..Len(text) : text[i][1] # "val"

BatchTools == {"sql_bulk_insert", "sql_batch_update", "sql_batch_delete"}

\* the requests of the batch tool with every such value replaced by u
BatchTextsWith(u) ==
    CASE op = "sql_bulk_insert" ->
            Texts(bulkInsert(
                [ParsedBulkInsert(args) EXCEPT
                    !.data = [i \in 1..Len(@) |-> WithDataValues(@[i], u)]],
                Replies(sent)).requests)
      [] op = "sql_batch_update" ->
            Texts(batchUpdate(
                [ParsedBatchUpdate(args) EXCEPT
                    !.updates = [i \in 1..Len(@) |->
                        [data |-> WithDataValues(@[i].data, u),
                         where |-> WithWhereValues(@[i].where, u)]]],
                Replies(sent)).requests)
      [] op = "sql_batch_delete" ->
            Texts(batchDelete(
                [ParsedBatchDelete(args) EXCEPT
                    !.conditions = [i \in 1..Len(@) |->
                        [where |-> WithWhereValues(@[i].where, u)]]],
                Replies(sent)).requests)

BuilderTextWith(u) ==
    CASE op = "buildSelectQuery" ->
            buildSelectQuery([args EXCEPT !.where = WithWhereValues(@, u)]).query
      [] op = "buildInsertQuery" ->
            buildInsertQuery(args.table, WithDataValues(args.data, u)).query
      [] op = "buildUpdateQuery" ->
            buildUpdateQuery(args.table, WithDataValues(args.data, u),
                             WithWhereValues(args.where, u)).query
      [] op = "buildDeleteQuery" ->
            buildDeleteQuery(args.table, WithWhereValues(args.where, u)).query

\* C3: value safety as non-interference: the SQL text of the four builders and
\* of the three batch operations is the same for two descriptions that differ
\* only in the scalar values of record columns and of predicates that are
\* neither null tests nor membership tests; no such value is in the text.
C3_ValueNonInterference ==
    /\ op \in Builders =>
        /\ NoValueInText(result.query)
        /\ \A u \in ProbeValues : result.query = BuilderTextWith(u)
    /\ (op \in BatchTools /\ ~result.isError) =>
        /\ \A k \in 1..Len(sent) : NoValueInText(sent[k].query)
        /\ \A u \in ProbeValues : Texts(sent) = BatchTextsWith(u)

\* an update whose record and whose comparison carry scalar values, both bound
C3_Witness ==
    /\ op = "buildUpdateQuery"
    /\ Len(args.data) = 2
    /\ \E i \in 1..Len(args.where) :
        /\ args.where[i].operator = "="
        /\ args.where[i].value = Scalar("v1")
        /\ Get(result.inputs, "where_param" \o ToString(WhereParamStart + i - 1)) = Scalar("v1")
    /\ Get(result.inputs, "a") = Scalar("v1")

\* C4: parameter completeness: the placeholder names in the text of a builder's
\* statement are exactly the keys of its parameter map.
C4_ParameterCompleteness ==
    op \in Builders => Placeholders(result.query) = KeySet(result.inputs)

\* a select whose membership test has no array and whose comparison has no
\* value: one placeholder, one key
C4_Witness ==
    /\ op = "buildSelectQuery"
    /\ Len(args.where) = 2
    /\ args.where[1].operator = "IN" /\ ~IsArray(args.where[1].value)
    /\ args.where[2].operator = "=" /\ ~IsDefined(args.where[2].value)
    /\ Placeholders(result.query) = {"param2"}
    /\ KeySet(result.inputs) = {"param2"}

\* C5: a membership predicate whose value is no sequence, or the empty
\* sequence, makes buildSelectQuery, buildUpdateQuery and buildDeleteQuery
\* report an error: no statement is returned.
C5_BadMembershipRejected ==
    (/\ op \in WhereBuilders
     /\ \E i \in 1..Len(args.where) :
            /\ IsMembership(args.where[i])
            /\ (~IsArray(args.where[i].value) \/ Len(args.where[i].value.v) = 0))
    => Len(result.query) = 0

\* C6 as claimed: buildUpdateQuery and buildDeleteQuery called with an empty
\* predicate sequence report an error and return no statement.
C6_EmptyWhereRejected ==
    (op \in {"buildUpdateQuery", "buildDeleteQuery"} /\ Len(args.where) = 0)
    => Len(result.query) = 0

\* C6 as amended: buildUpdateQuery and buildDeleteQuery always return a
\* statement; it has a WHERE clause exactly when the predicate sequence is
\* not empty, and with an empty sequence no predicate parameter is bound.
C6_WhereIffPredicates ==
    op \in {"buildUpdateQuery", "buildDeleteQuery"} =>
        /\ Len(result.query) > 0
        /\ HasWhereClause(result.query) <=> Len(args.where) > 0
        /\ Len(args.where) = 0 =>
            result.inputs = (IF op = "buildUpdateQuery" THEN args.data ELSE <<>>)

C6_Witness ==
    /\ op = "buildDeleteQuery"
    /\ Len(args.where) = 0
    /\ result.query = Sql("DELETE FROM ") \o Ident("t")

\* C7: mandatory WHERE at the tool boundary: sql_update, sql_delete,
\* sql_batch_update and sql_batch_delete reject a request whose where list is
\* missing or empty (for the batch tools, in any entry) by schema validation:
\* the response is an error and no statement is sent.
C7_MandatoryWhere ==
    LET Refused == Rejected /\ result.body.error = ValidationError
    IN  /\ (op \in {"sql_update", "sql_delete"} /\ MissingOrEmpty(args.where)) => Refused
        /\ (/\ op = "sql_batch_update"
            /\ \E i \in 1..Len(args.updates) : MissingOrEmpty(args.updates[i].where))
           => Refused
        /\ (/\ op = "sql_batch_delete"
            /\ \E i \in 1..Len(args.conditions) : MissingOrEmpty(args.conditions[i].where))
           => Refused

\* a batch delete whose first entry is in order and whose second has an empty list
C7_Witness ==
    /\ op = "sql_batch_delete"
    /\ Len(args.conditions) = 2
    /\ ValidWhere(args.conditions[1].where)
    /\ args.conditions[2].where.present
    /\ Len(args.conditions[2].where.val) = 0
    /\ Rejected

\* C8: membership expansion: in the three builders an IN / NOT IN predicate
\* with a sequence of N values yields a condition with exactly N placeholders,
\* each a key of the parameter map, each occurring nowhere else in the
\* statement, the k-th bound to the k-th value.
C8_MembershipExpansion ==
    op \in WhereBuilders =>
        \A i \in 1..Len(args.where) :
            (IsMembership(args.where[i]) /\ IsArray(args.where[i].value)) =>
                LET values == args.where[i].value.v
                    names == PhSeq(ConditionOfPredicate(result.query, args.where, i))
                IN  /\ Len(names) = Len(values)
                    /\ \A k \in 1..Len(names) :
                        /\ names[k] \in KeySet(result.inputs)
                        /\ Get(result.inputs, names[k]) = Scalar(values[k])
                        /\ Occurrences(result.query, names[k]) = 1

\* the text of the statements of a batch request, without the row count
StatementsOf(request) ==
    LET parts == SplitAt(request.query, Tok("sql", "; "))
    IN  SubSeq(parts, 1, Len(parts) - 1)

\* C9: the WHERE clause batchUpdate and batchDelete emit for an entry is, up to
\* the names of the parameters, the WHERE clause buildDeleteQuery emits for the
\* same predicates, with the same values bound.
C9_BatchWhereAsBuilder ==
    (op \in {"sql_batch_update", "sql_batch_delete"} /\ ~result.isError) =>
        LET list == IF op = "sql_batch_update" THEN args.updates ELSE args.conditions
            batchSize == BatchSizeOr(args.batchSize, BatchDefaultBatchSize)
        IN  \A k \in 1..Len(sent) :
                LET statements == StatementsOf(sent[k])
                IN  \A b \in 1..Len(statements) :
                        LET where == list[BatchStart(k, batchSize) + b].where.val
                            built == buildDeleteQuery(args.table, where)
                        IN  /\ Unnamed(WherePart(statements[b]))
                                = Unnamed(WherePart(built.query))
                            /\ BoundValues(WherePart(statements[b]), sent[k].inputs)
                                = BoundValues(WherePart(built.query), built.inputs)

\* C10: bulkInsert binds every value of every record: for every record and
\* every column key of the record, the column is in the column list of the
\* statement of the record's batch, once, and the placeholder at its place in
\* the record's tuple is bound to the record's value.
C10_EveryValueBound ==
    (op = "sql_bulk_insert" /\ ~result.isError) =>
        LET batchSize == BatchSizeOr(args.batchSize, BulkInsertDefaultBatchSize)
        IN  \A k \in 1..Len(sent) :
                LET batch == BatchSlice(args.data, BatchStart(k, batchSize), batchSize)
                    columns == Tail(IdSeq(sent[k].query))
                    names == PhSeq(sent[k].query)
                IN  \A b \in 1..Len(batch) : \A e \in 1..Len(batch[b]) :
                        LET places == {j \in 1..Len(columns) : columns[j] = batch[b][e].name}
                        IN  /\ Cardinality(places) = 1
                            /\ \A j \in places :
                                /\ (b - 1) * Len(columns) + j <= Len(names)
                                /\ Get(sent[k].inputs, names[(b - 1) * Len(columns) + j])
                                    = batch[b][e].value

\* the name `prefix_position_index`
PositionalName(prefix, position, index) ==
    prefix \o "_" \o ToString(position) \o "_" \o ToString(index)

Distinct(names) == \A i, j \in 1..Len(names) : i # j => names[i] # names[j]

\* the entries of the tool call in hand, and its batch size
BatchEntries ==
    CASE op = "sql_bulk_insert" -> args.data
      [] op = "sql_batch_update" -> args.updates
      [] op = "sql_batch_delete" -> args.conditions

BatchSizeUsed ==
    BatchSizeOr(args.batchSize,
                IF op = "sql_bulk_insert" THEN BulkInsertDefaultBatchSize
                ELSE BatchDefaultBatchSize)

\* the names an entry at `position` may bind: prefix, position, index within the entry
EntryNames(entry, position) ==
    CASE op = "sql_bulk_insert" -> {}
      [] op = "sql_batch_update" ->
            {PositionalName("update", position, c - 1) : c \in 1..Len(entry.data)}
            \cup {PositionalName("where", position, w - 1) : w \in 1..Len(entry.where.val)}
      [] op = "sql_batch_delete" ->
            {PositionalName("where", position, w - 1) : w \in 1..Len(entry.where.val)}

\* C11: batch non-collision: in each request of bulkInsert, batchUpdate and
\* batchDelete the bound parameter names are pairwise distinct, one parameter
\* is bound per placeholder, and each name holds the absolute position of its
\* entry in the input and its index within the entry.
C11_BatchNonCollision ==
    (op \in BatchTools /\ ~result.isError) =>
        \A k \in 1..Len(sent) :
            LET names == PhSeq(sent[k].query)
                start == BatchStart(k, BatchSizeUsed)
            IN  /\ Distinct(names)
                /\ KeySet(sent[k].inputs) = {names[n] : n \in 1..Len(names)}
                /\ Len(sent[k].inputs) = Len(names)
                /\ IF op = "sql_bulk_insert"
                   THEN LET width == Len(Tail(IdSeq(sent[k].query)))
                        IN  \A n \in 1..Len(names) :
                                names[n] = PositionalName("param",
                                                start + ((n - 1) \div width),
                                                (n - 1) % width)
                   ELSE LET statements == StatementsOf(sent[k])
                        IN  \A b \in 1..Len(statements) :
                                \A n \in 1..Len(PhSeq(statements[b])) :
                                    PhSeq(statements[b])[n]
                                        \in EntryNames(BatchEntries[start + b], start + b - 1)

\* two updates of the same column with the same predicate, in one request
C11_Witness ==
    /\ op = "sql_batch_update"
    /\ ~result.isError
    /\ Len(args.updates) = 2
    /\ args.updates[1] = args.updates[2]
    /\ Len(sent) = 1
    /\ Len(PhSeq(sent[1].query)) = 4

\* the names of the placeholders of a text
PhSet(text) == {PhSeq(text)[n] : n \in 1..Len(PhSeq(text))}

\* the text of an UPDATE before its WHERE clause
SetPart(text) ==
    LET i == IndexOfTok(text, Tok("sql", " WHERE "))
    IN  IF i = 0 THEN text ELSE SubSeq(text, 1, i - 1)

\* C12: in buildUpdateQuery the parameter names of the SET clause and of the
\* WHERE clause are disjoint: no key of the parameter map is written by both
\* a SET column and a WHERE predicate.
C12_SetWhereDisjoint ==
    op = "buildUpdateQuery" =>
        /\ PhSet(SetPart(result.query)) \cap PhSet(WherePart(result.query)) = {}
        /\ Len(result.inputs)
            = Len(PhSeq(SetPart(result.query))) + Len(PhSeq(WherePart(result.query)))

\* the literal text that opens and closes a bracketed identifier
OpeningBracket == {Tok("sql", "["), Tok("sql", " (["), Tok("sql", "], [")}
ClosingBracket == {Tok("sql", "]"), Tok("sql", "], ["), Tok("sql", "]) VALUES ")}

BracketedAt(text, j) ==
    /\ 1 < j /\ j < Len(text)
    /\ text[j - 1] \in OpeningBracket
    /\ text[j + 1] \in ClosingBracket

\* C13: identifier quoting: in the statements of the four builders every
\* caller-supplied table and column name is wrapped in [ ]: every identifier
\* of the text, and every projection column of a SELECT.
C13_IdentifiersBracketed ==
    op \in Builders =>
        /\ \A j \in 1..Len(result.query) :
                IsId(result.query[j]) => BracketedAt(result.query, j)
        /\ op = "buildSelectQuery" =>
                \A c \in 1..Len(args.columns) :
                    args.columns[c] # <<"*">> =>
                        \E j \in 1..IndexOfFrom(result.query) :
                            /\ result.query[j][2] = args.columns[c][1]
                            /\ BracketedAt(result.query, j)

Num(n) == <<Tok("num", ToString(n))>>

HasTok(text, tok) == IndexOfTok(text, tok) # 0

\* the last n tokens of a text
Suffix(text, n) == SubSeq(text, Len(text) - n + 1, Len(text))

OffsetFetch(offset, limit) ==
    Sql(" OFFSET ") \o Num(offset) \o Sql(" ROWS FETCH NEXT ") \o Num(limit)
    \o Sql(" ROWS ONLY")

\* C14: pagination strategy of buildSelectQuery: with a limit N and no offset
\* the statement starts with SELECT TOP N and has no OFFSET clause; with a
\* limit N, an offset K > 0 and an ordering term it ends with
\* OFFSET K ROWS FETCH NEXT N ROWS ONLY, after ORDER BY, and has no TOP.
C14_PaginationStrategy ==
    op = "buildSelectQuery" =>
        /\ (args.limit # 0 /\ args.offset = 0) =>
            /\ SubSeq(result.query, 1, 3)
                = Sql("SELECT TOP ") \o Num(args.limit) \o Sql(" ")
            /\ ~HasTok(result.query, Tok("sql", " OFFSET "))
            /\ ~HasTok(result.query, Tok("sql", " ROWS FETCH NEXT "))
        /\ (args.limit # 0 /\ args.offset # 0 /\ Len(args.orderBy) > 0) =>
            /\ Len(result.query) >= 5
            /\ Suffix(result.query, 5) = OffsetFetch(args.offset, args.limit)
            /\ HasTok(result.query, Tok("sql", " ORDER BY "))
            /\ IndexOfTok(result.query, Tok("sql", " ORDER BY "))
                < IndexOfTok(result.query, Tok("sql", " OFFSET "))
            /\ ~HasTok(result.query, Tok("sql", "SELECT TOP "))

\* a filtered, ordered select with a limit and an offset
C14_Witness ==
    /\ op = "buildSelectQuery"
    /\ args.limit = 10 /\ args.offset = 20
    /\ Len(args.orderBy) > 0 /\ Len(args.where) > 0
    /\ Suffix(result.query, 5) = OffsetFetch(20, 10)

\* C15: buildSelectQuery called with an offset and no ordering term reports a
\* caller error and returns no statement; it never emits an OFFSET clause
\* that no ORDER BY clause precedes.
C15_OffsetNeedsOrder ==
    op = "buildSelectQuery" =>
        /\ (args.offset # 0 /\ Len(args.orderBy) = 0) => Len(result.query) = 0
        /\ HasTok(result.query, Tok("sql", " OFFSET ")) =>
            /\ HasTok(result.query, Tok("sql", " ORDER BY "))
            /\ IndexOfTok(result.query, Tok("sql", " ORDER BY "))
                < IndexOfTok(result.query, Tok("sql", " OFFSET "))

\* the text holds `OFFSET k ROWS`
SkipsRows(text, k) ==
    \E j \in 1..Len(text) - 2 :
        SubSeq(text, j, j + 2) = Sql(" OFFSET ") \o Num(k) \o Sql(" ROWS FETCH NEXT ")

\* the text restricts the rows to n: TOP n or FETCH NEXT n ROWS ONLY
RestrictsRows(text, n) ==
    \/ SubSeq(text, 1, 2) = Sql("SELECT TOP ") \o Num(n)
    \/ \E j \in 1..Len(text) - 2 :
        SubSeq(text, j, j + 2) = Sql(" ROWS FETCH NEXT ") \o Num(n) \o Sql(" ROWS ONLY")

\* C16: buildSelectQuery encodes limit and offset faithfully: with a positive
\* offset K the statement holds OFFSET K ROWS, with or without a limit; with
\* a limit N the statement restricts the result to N rows.
C16_LimitOffsetFaithful ==
    op = "buildSelectQuery" =>
        /\ args.offset # 0 => SkipsRows(result.query, args.offset)
        /\ args.limit # 0 => RestrictsRows(result.query, args.limit)

\* the rank of the clause a keyword opens, 0 for any other text
ClauseRank(tok) ==
    CASE tok \in {Tok("sql", "SELECT "), Tok("sql", "SELECT TOP ")} -> 1
      [] tok = Tok("sql", " FROM ") -> 2
      [] tok = Tok("sql", " JOIN ") -> 3
      [] tok = Tok("sql", " WHERE ") -> 4
      [] tok = Tok("sql", " ORDER BY ") -> 5
      [] tok = Tok("sql", " OFFSET ") -> 6
      [] OTHER -> 0

OpensClause(tok) == ClauseRank(tok) # 0

\* the clauses of a text, in the order in which they appear
ClauseSeq(text) ==
    LET keywords == SelectSeq(text, OpensClause)
    IN  [i \in 1..Len(keywords) |-> ClauseRank(keywords[i])]

\* only JOIN may repeat; every other clause appears once, in rank order
InClauseOrder(ranks) ==
    \A i \in 1..Len(ranks) - 1 :
        ranks[i] < ranks[i + 1] \/ (ranks[i] = 3 /\ ranks[i + 1] = 3)

\* the text from one keyword to the first of the keywords that may follow it
Segment(text, from, until) ==
    LET i == IndexOfTok(text, from)
        rest == SubSeq(text, i + 1, Len(text))
        ends == {j \in 1..Len(rest) : rest[j] \in until}
        end == IF ends = {} THEN Len(rest) + 1 ELSE CHOOSE j \in ends : \A m \in ends : j <= m
    IN  IF i = 0 THEN <<>> ELSE SubSeq(rest, 1, end - 1)

IsItem(tok) == tok[1] \in {"id", "op", "raw"}

\* what the caller supplied, as it appears in a text: identifiers, operators
\* and raw fragments, in order
Items(text) == LET items == SelectSeq(text, IsItem) IN [i \in 1..Len(items) |-> items[i][2]]

\* the columns and operators of the conditions of a text, in order; the
\* builders write the two null tests as literal text
NullTestText == {Tok("sql", " IS NULL"), Tok("sql", " IS NOT NULL")}

IsConditionItem(tok) == tok[1] \in {"id", "op"} \/ tok \in NullTestText

ConditionItems(text) ==
    LET items == SelectSeq(text, IsConditionItem)
    IN  [i \in 1..Len(items) |->
            CASE items[i] = Tok("sql", " IS NULL") -> "IS NULL"
              [] items[i] = Tok("sql", " IS NOT NULL") -> "IS NOT NULL"
              [] OTHER -> items[i][2]]

\* the items of the joins after the table
JoinItems(text, table) ==
    LET IsJoinItem(tok) == IsItem(tok) /\ tok # Tok("id", table)
        items == SelectSeq(Segment(text, Tok("sql", " FROM "),
                                   {Tok("sql", " WHERE "), Tok("sql", " ORDER BY "),
                                    Tok("sql", " OFFSET ")}),
                           IsJoinItem)
    IN  [i \in 1..Len(items) |-> items[i][2]]

\* the predicates that push a condition, in order
RECURSIVE Pushed(_)
Pushed(where) ==
    IF where = <<>> THEN <<>>
    ELSE (IF PushesCondition(where[1]) THEN <<where[1]>> ELSE <<>>) \o Pushed(Tail(where))

\* C17: ordering fidelity: in the statements of buildSelectQuery the joins,
\* the conditions and the ordering terms appear in the order of their input
\* sequences and the clauses in the order projection, FROM, joins, WHERE,
\* ORDER BY, pagination; the statements of batchUpdate and batchDelete and the
\* tuples of bulkInsert appear in the order of the entries.
C17_OrderingFidelity ==
    /\ op = "buildSelectQuery" =>
        /\ InClauseOrder(ClauseSeq(result.query))
        /\ JoinItems(result.query, args.table)
            = Flatten([i \in 1..Len(args.joins) |->
                        <<args.joins[i].type, args.joins[i].table, args.joins[i].on>>])
        /\ ConditionItems(WherePart(result.query))
            = Flatten([i \in 1..Len(Pushed(args.where)) |->
                        <<Pushed(args.where)[i].column, Pushed(args.where)[i].operator>>])
        /\ Items(Segment(result.query, Tok("sql", " ORDER BY "), {Tok("sql", " OFFSET ")}))
            = Flatten([i \in 1..Len(args.orderBy) |->
                        <<args.orderBy[i].column, args.orderBy[i].direction>>])
    /\ (op \in {"sql_batch_update", "sql_batch_delete"} /\ ~result.isError) =>
        \A k \in 1..Len(sent) :
            LET statements == StatementsOf(sent[k])
                batch == BatchSlice(BatchEntries, BatchStart(k, BatchSizeUsed), BatchSizeUsed)
            IN  /\ Len(statements) = Len(batch)
                /\ \A b \in 1..Len(batch) :
                    /\ ConditionItems(WherePart(statements[b]))
                        = Flatten([w \in 1..Len(batch[b].where.val) |->
                                    <<batch[b].where.val[w].column,
                                      batch[b].where.val[w].operator>>])
                    /\ op = "sql_batch_update" =>
                        Items(SetPart(statements[b]))
                            = <<args.table>> \o Keys(batch[b].data)
    /\ (op = "sql_bulk_insert" /\ ~result.isError) =>
        \A k \in 1..Len(sent) :
            LET batch == BatchSlice(args.data, BatchStart(k, BatchSizeUsed), BatchSizeUsed)
                columns == Tail(IdSeq(sent[k].query))
                names == PhSeq(sent[k].query)
            IN  /\ Len(names) = Len(batch) * Len(columns)
                /\ \A b \in 1..Len(batch) : \A j \in 1..Len(columns) :
                    Get(sent[k].inputs, names[(b - 1) * Len(columns) + j])
                        = Get(batch[b], columns[j])

\* a select with two joins, two conditions, two ordering terms and a page
C17_Witness ==
    /\ op = "buildSelectQuery"
    /\ Len(args.joins) = 2 /\ Len(args.orderBy) = 2
    /\ Len(args.where) = 2 /\ Len(Pushed(args.where)) = 2
    /\ args.where[1].operator # args.where[2].operator
    /\ args.limit # 0 /\ args.offset # 0
    /\ ClauseSeq(result.query) = <<1, 2, 3, 3, 4, 5, 6>>

\* C18: row ceiling: a sql_select or sql_query response carries at most
\* maxRows rows; executeSelect gives the builder the limit min(requested,
\* maxRows), and maxRows when none is requested, so the SELECT it sends is
\* row-bounded; executeCustomQuery sets truncated exactly when the result set
\* had more than maxRows rows.
C18_RowCeiling ==
    /\ (op = "sql_select" /\ ~result.isError) =>
        /\ result.body.dataLength <= DefaultMaxRows
        /\ Len(sent) = 1
        /\ RowLimitOf(sent[1].query)
            = (IF args.limit.present
               THEN Min(args.limit.val, DefaultMaxRows) ELSE DefaultMaxRows)
    /\ (op = "sql_query" /\ ~result.isError) =>
        /\ result.body.dataLength <= DefaultMaxRows
        /\ result.body.truncated <=> sent[1].reply.rows > DefaultMaxRows

\* a select without a limit on a table of more than maxRows rows
C18_Witness ==
    /\ op = "sql_select"
    /\ ~result.isError
    /\ ~args.limit.present
    /\ sent[1].reply.rows > DefaultMaxRows
    /\ result.body.dataLength = DefaultMaxRows

\* C19: automatic reconnection: when, after a successful start, the pool is
\* absent or no longer connected while calls arrive, the connection is
\* eventually re-established (unless the process is stopped).
C19_Reconnects ==
    (server = "serving" /\ ~PoolAvailable) ~> (PoolAvailable \/ server # "serving")

C21_FilterComplete ==
    op \in WhereBuilders =>
        LET conditions == ConditionsOf(result.query)
        IN  /\ Len(conditions) = Len(args.where)
            /\ \A i \in 1..Len(args.where) :
                ConditionItems(conditions[i])
                    = <<args.where[i].column, args.where[i].operator>>

\* the text with TOP n inserted after SELECT
WithTop(text, n) == Sql("SELECT TOP ") \o Num(n) \o Sql(" ") \o Tail(text)

\* C22: limit-only rewrite: for a SELECT description with a limit N and no
\* offset the text is the text of the same description without a limit with
\* TOP N inserted after SELECT: the table is written once in the FROM clause
\* and the join, WHERE and ORDER BY clauses are unchanged.
C22_LimitOnlyRewrite ==
    (op = "buildSelectQuery" /\ args.limit # 0 /\ args.offset = 0) =>
        /\ result.query
            = WithTop(buildSelectQuery([args EXCEPT !.limit = 0]).query, args.limit)
        /\ Cardinality({j \in 1..Len(result.query) :
                            result.query[j] = Tok("id", args.table)}) = 1

\* the number of entries a batch request holds: the tuples of an INSERT, the
\* statements of a batch of updates or deletes
EntriesIn(request) ==
    IF op = "sql_bulk_insert"
    THEN Cardinality({j \in 1..Len(request.query) : request.query[j] = Tok("sql", "(")})
    ELSE Len(StatementsOf(request))

\* the values an entry binds, in order
DefinedValues(where) ==
    LET HasValue(c) == IsDefined(c.value)
        conditions == SelectSeq(where, HasValue)
    IN  [i \in 1..Len(conditions) |-> conditions[i].value]

EntryValues(entry, columns) ==
    CASE op = "sql_bulk_insert" -> [j \in 1..Len(columns) |-> Get(entry, columns[j])]
      [] op = "sql_batch_update" ->
            [c \in 1..Len(entry.data) |-> entry.data[c].value]
            \o DefinedValues(entry.where.val)
      [] op = "sql_batch_delete" -> DefinedValues(entry.where.val)

\* C23: batch partition: bulkInsert, batchUpdate and batchDelete split the n
\* entries into consecutive batches of at most batchSize entries: every entry
\* is submitted once, in input order, and the number of requests is the
\* reported batchCount = ceil(n / batchSize).
C23_BatchPartition ==
    (op \in BatchTools /\ ~result.isError) =>
        LET n == Len(BatchEntries)
            size == BatchSizeUsed
        IN  /\ Len(sent) = (n + size - 1) \div size
            /\ result.body.batchCount = Len(sent)
            /\ \A k \in 1..Len(sent) :
                /\ EntriesIn(sent[k]) = (IF k < Len(sent) THEN size ELSE n - (k - 1) * size)
                /\ EntriesIn(sent[k]) >= 1
                /\ BoundValues(sent[k].query, sent[k].inputs)
                    = Flatten([b \in 1..EntriesIn(sent[k]) |->
                                EntryValues(BatchEntries[(k - 1) * size + b],
                                            Tail(IdSeq(sent[k].query)))])

\* two entries sent in two batches of one
C23_Witness ==
    /\ op = "sql_batch_delete"
    /\ ~result.isError
    /\ Len(args.conditions) = 2
    /\ args.conditions[1] # args.conditions[2]
    /\ BatchSizeUsed = 1
    /\ Len(sent) = 2

\* the batches of the call in hand that the database refused
FailedBatches == {k \in 1..Len(sent) : sent[k].reply.error}

\* the rows counted by the requests that succeeded
RECURSIVE RowsCounted(_)
RowsCounted(requests) ==
    IF requests = <<>> THEN 0
    ELSE (IF requests[1].reply.error THEN 0 ELSE requests[1].reply.rows)
         + RowsCounted(Tail(requests))

\* C24: batch failure isolation: a batch that fails does not stop bulkInsert,
\* batchUpdate or batchDelete: every batch is attempted, the errors name the
\* failed batches by their 1-based number, in order, the rows of failed
\* batches are not counted, success holds exactly when no batch failed and
\* errors is undefined exactly when success holds.
C24_FailureIsolation ==
    (op \in BatchTools /\ ~result.isError) =>
        LET n == Len(BatchEntries)
            errors == result.body.errors
        IN  /\ Len(sent) = (n + BatchSizeUsed - 1) \div BatchSizeUsed
            /\ result.body.success <=> FailedBatches = {}
            /\ errors.present <=> ~result.body.success
            /\ Len(errors.val) = Cardinality(FailedBatches)
            /\ \A i \in 1..Len(errors.val) :
                /\ errors.val[i].batch \in FailedBatches
                /\ i > 1 => errors.val[i - 1].batch < errors.val[i].batch
            /\ result.body.totalRowsAffected = RowsCounted(sent)

\* the first of two batches fails, the second is executed and counted
C24_Witness ==
    /\ op = "sql_batch_update"
    /\ ~result.isError
    /\ Len(sent) = 2
    /\ sent[1].reply.error /\ ~sent[2].reply.error
    /\ result.body.errors = Present(<<[batch |-> 1]>>)
    /\ result.body.totalRowsAffected = sent[2].reply.rows
    /\ ~result.body.success

\* C25: rows-affected accounting: the totalRowsAffected of batchUpdate and
\* batchDelete is the sum, over the batches that succeeded, of the rows
\* affected by every statement of the batch.  The rows of a reply are what
\* SELECT @@ROWCOUNT reports, the rows of the last statement of the batch;
\* every statement of the batch is taken to affect as many.
C25_RowsOfEveryStatement ==
    (op \in {"sql_batch_update", "sql_batch_delete"} /\ ~result.isError) =>
        LET RECURSIVE affected(_)
            affected(requests) ==
                IF requests = <<>> THEN 0
                ELSE (IF requests[1].reply.error THEN 0
                      ELSE Len(StatementsOf(requests[1])) * requests[1].reply.rows)
                     + affected(Tail(requests))
        IN  result.body.totalRowsAffected = affected(sent)

\* the tools whose transaction statements and CRUD statements follow a begin
TransactionFollowers ==
    {"sql_create_savepoint", "sql_commit_transaction", "sql_rollback_transaction", "sql_delete"}

\* C26: transaction session affinity: while a transaction begun by
\* sql_begin_transaction is open, every statement of sql_create_savepoint,
\* sql_commit_transaction, sql_rollback_transaction and of a CRUD tool runs on
\* the connection on which the transaction was begun, for any pool size.
C26_SessionAffinity ==
    (tx # 0 /\ op \in TransactionFollowers) =>
        \A k \in 1..Len(acquired) : acquired[k] = tx

HandledTools ==
    {"sql_select", "sql_update", "sql_delete", "sql_query", "sql_bulk_insert",
     "sql_batch_update", "sql_batch_delete", "sql_test_connection"}

\* Schema.parse accepts the arguments of the call in hand
Validates ==
    CASE op = "sql_select" -> SelectToolSchema(args)
      [] op = "sql_update" -> UpdateToolSchema(args)
      [] op = "sql_delete" -> DeleteToolSchema(args)
      [] op = "sql_query" -> CustomQuerySchema(args)
      [] op = "sql_bulk_insert" -> BulkInsertSchema(args)
      [] op = "sql_batch_update" -> BatchUpdateSchema(args)
      [] op = "sql_batch_delete" -> BatchDeleteSchema(args)
      [] op = "sql_begin_transaction" -> BeginTransactionSchema(args)
      [] OTHER -> TRUE

\* the method of the tools threw: before any request, or because the
\* database refused the request (the batch tools and testConnection() catch
\* the errors of their requests themselves)
Raised ==
    IF op \in BatchTools THEN FALSE
    ELSE IF op = "sql_test_connection"
    THEN Len(sent) = 2 /\ sent[2].reply.error
    ELSE sent = <<>> \/ \E k \in 1..Len(sent) : sent[k].reply.error

C28_NoQueryUnconnected ==
    [][(op = "none" /\ op' # "none" /\ ~PoolAvailable) =>
        /\ sent' = <<>>
        /\ IF op' = "sql_test_connection"
           THEN result' = [isError |-> FALSE,
                           body |-> [success |-> FALSE, connected |-> FALSE,
                                     error |-> ConnectionTestFailed]]
           ELSE /\ result'.isError
                /\ result'.body.error \in {ValidationError, NotConnected}
                /\ Validates' => result'.body.error = NotConnected]_vars

\* a DELETE and a transaction called after the pool was closed
C28_Witness ==
    /\ server = "serving"
    /\ pool = "closed"
    /\ op \in {"sql_delete", "sql_begin_transaction"}
    /\ Validates
    /\ sent = <<>>
    /\ result = handleError(NotConnected, op)

\* C29: connection lifecycle: after any calls of connect() and disconnect()
\* the DatabaseConnection holds a pool exactly when the last call that ended
\* was a connect() that succeeded.
C29_PoolIffConnected ==
    (pool # "null") <=> (lastCall = "connected")

\* C30: start-up ordering: the transport is attached only after db.connect()
\* succeeded, so a tool is called only in a process whose connect() succeeded;
\* a start that fails runs cleanup() and exits with code 1 without having
\* served a call; cleanup() never throws.
C30_StartupOrdering ==
    [][/\ (op = "none" /\ op' # "none") =>
            (server \in {"serving", "stopping"} /\ created >= 1 /\ lastCall = "connected")
       /\ (server = "constructed" /\ server' = "serving") =>
            (pool' = "connected" /\ lastCall' = "connected")
       /\ (server = "constructed" /\ server' = "exited") =>
            /\ op = "none" /\ op' = "none"
            /\ exitCode' = Present(1)
            /\ lastCall' \in {"disconnected", "disconnect failed"}
       /\ \A p \in {"null", "connected", "closed"}, left \in CloseOutcomes :
            ~cleanup(p, left).threw]_vars

\* a start that failed after connect(): pool.close() rejected in cleanup()
C30_Witness ==
    /\ server = "exited"
    /\ exitCode = Present(1)
    /\ op = "none"
    /\ created = 1
    /\ pool = "closed"
    /\ lastCall = "disconnect failed"

====
